---- MODULE Spec2Model ----
(***************************************************************************)
(* Model of the phoneme-synchronised playback engine of learn-to-read:    *)
(* utils/audioPlayer (playBuffer, stopAudio, playWordSequence) and the     *)
(* WordViewer component that drives it (runKaraokeAnimation, its animate   *)
(* loop, playFullSequence, the teardown effect).                           *)
(*                                                                         *)
(* Time is counted in hundredths of a second (0.01 s), so 0.02 s is 2 and  *)
(* 0.4 s is 40.  The custom-recording path divides by                      *)
(* totalStitchedDuration; its timings are kept as exact fractions: every   *)
(* startTime and duration of a plan is a numerator over the plan's `den`.  *)
(* Letter indices are 1-based here (the code's index + 1).                 *)
(***************************************************************************)
EXTENDS Integers, Sequences, FiniteSets, TLC

VARIABLES
    word,               \* wordData.letters
    customRecordingId,  \* wordData.customRecordingId (NoId when undefined)
    store,              \* the recording store read by getRecording
    now,                \* ctx.currentTime
    req,                \* one record per playback request (async call frame)
    activeSources,      \* audioPlayer's activeSources
    scheduled,          \* every source ever started by playBuffer (history)
    isMounted,          \* isMountedRef.current
    animationFrameRef,  \* request owning the frame id in animationFrameRef.current
    wordComplete,       \* WordViewer state wordComplete
    isPlaying,          \* WordViewer state isPlaying
    onCompleteCalls,    \* how often props.onComplete was invoked
    onFeedbackDoneCalls,\* how often props.onFeedbackDone was invoked
    progressIndex,      \* WordViewer state progressIndex (1-based: the letter to click next)
    playingIndex,       \* WordViewer state playingIndex (0 when null)
    pending,            \* awaited loads of playSound, playInstructionBlob and playBlob
    timers,             \* armed one-shot timers of the letter phase
    speech,             \* the utterance queue of window.speechSynthesis
    speechAtStop,       \* the utterance queue stopAudio found (history)
    soundIdCall,        \* a call of getSoundIdForLetter: its arguments and result
    trimCall,           \* a call of the silence trimmer: its buffer and result
    app                 \* App state: the word list and the training session

vars == <<word, customRecordingId, store, now, req, activeSources, scheduled,
          isMounted, animationFrameRef, wordComplete, isPlaying, onCompleteCalls,
          onFeedbackDoneCalls, progressIndex, playingIndex, pending, timers, speech,
          speechAtStop, soundIdCall, trimCall, app>>

\* The state of the letter phase: letter clicks, playSound, the intro.
soundVars == <<progressIndex, playingIndex, pending, timers, speech, speechAtStop>>

\* The state outside the playback engine: the sound-id lookup, the trimmer,
\* the App.
outerVars == <<soundIdCall, trimCall, app>>

----------------------------------------------------------------------------
(* Bounds of the model *)

MaxLen == 3         \* letters per word in the plan specification
MaxClock == 25      \* the audio clock stops advancing here
ClockStep == 5      \* the clock is read every ClockStep hundredths of a second
MaxRepeatLen == 2   \* letters per word in the repeated-call specification
MaxSoundLen == 2    \* letters per word in the letter-phase specification
MaxSamples == 4     \* samples per channel of a buffer given to the trimmer
MaxAdded == 3       \* words added with quick-add
MaxCompletions == 3 \* word completions followed in a session of the App

(* Program constants, in hundredths of a second *)

OVERLAP == 2            \* const overlap = 0.02
MIN_EFFECTIVE == 10     \* Math.max(0.1, ...)
FALLBACK_DURATION == 30 \* let duration = 0.3
SEPARATOR_DURATION == 40 \* estimatedDuration: 0.4
LEAD_IN == 10           \* ctx.currentTime + 0.1
THRESHOLD == 2          \* const threshold = 0.02 (samples in hundredths of full scale)
PAD_PERCENT == 10       \* Math.floor(buffer.sampleRate * 0.1), trimAudioBuffer
PAD_PERCENT_PLAYER == 5 \* Math.floor(buffer.sampleRate * 0.05), trimSilence
TRAINING_SIZE == 5      \* queue.slice(0, 5)
SUGGESTIONS == 3        \* shuffled.slice(0, 3)

NoBuffer == -1          \* buffer: AudioBuffer | null = null
NoId == "none"          \* soundId / customRecordingId undefined
NoRequest == 0          \* animationFrameRef.current = 0

Max(a, b) == IF a > b THEN a ELSE b

----------------------------------------------------------------------------
(* Data: letters, words, the store *)

SoundIds == {"a", "b"}
CustomId == "w"
VerifyId == "inst_verify"

\* LetterData, reduced to the fields playWordSequence reads.  soundId stands
\* for the resolved targetId (letter.soundId || getSoundIdForLetter(...)).
Letter(cat, silent, id) == [soundCategory |-> cat, isSilent |-> silent, soundId |-> id]

LetterKinds ==
    { Letter("separator", TRUE, NoId),
      Letter("consonant", TRUE, "a"),
      Letter("consonant", FALSE, NoId),
      Letter("consonant", FALSE, "a"),
      Letter("vowel", FALSE, "b") }

TargetId(letter) == letter.soundId

Blob(kind, d) == [kind |-> kind, duration |-> d]
Absent == Blob("absent", 0)      \* getRecording resolves null
Corrupt == Blob("corrupt", 0)    \* getRecording rejects / decodeAudioData throws
Clip(d) == Blob("clip", d)       \* decodes into a buffer of duration d

WordsUpTo(n) == UNION { [1..k -> LetterKinds] : k \in 0..n }

----------------------------------------------------------------------------
(* playBuffer *)

\* Mutant: the source is started at the requested time, passed or not.
PlayBufferStart_Unclamped(when, currentTime) == when

\* const startTime = when > ctx.currentTime ? when : ctx.currentTime
PlayBufferStart(when, currentTime) == IF when > currentTime THEN when ELSE currentTime

\* The source created by playBuffer(buffer, ctx, when) for request r.
\* `index` is the letter the buffer belongs to (0: a whole-word or
\* instruction recording), `phase` the code place that called playBuffer.
Source(r, index, phase, buffer, when, currentTime) ==
    [req |-> r, index |-> index, phase |-> phase,
     startTime |-> PlayBufferStart(when, currentTime),
     endTime |-> PlayBufferStart(when, currentTime) + buffer]

----------------------------------------------------------------------------
(* playWordSequence: gathering *)

QueueItem(buffer, index, est) == [buffer |-> buffer, index |-> index, estimatedDuration |-> est]

\* const effectiveDuration = Math.max(0.1, duration - overlap)
EffectiveDuration(duration) == Max(MIN_EFFECTIVE, duration - OVERLAP)

\* Mutant: the silent flag is looked at before the separator category.
RECURSIVE GatherSync_SilentFirst(_, _, _, _)
GatherSync_SilentFirst(w, i, q, total) ==
    IF i > Len(w) THEN [i |-> i, audioQueue |-> q, totalStitchedDuration |-> total]
    ELSE LET letter == w[i] IN
         IF letter.isSilent THEN GatherSync_SilentFirst(w, i + 1, q, total)
         ELSE IF letter.soundCategory = "separator"
         THEN GatherSync_SilentFirst(w, i + 1,
                         Append(q, QueueItem(NoBuffer, i, SEPARATOR_DURATION)),
                         total + SEPARATOR_DURATION)
         ELSE IF TargetId(letter) = NoId
         THEN GatherSync_SilentFirst(w, i + 1,
                         Append(q, QueueItem(NoBuffer, i, EffectiveDuration(FALLBACK_DURATION))),
                         total + EffectiveDuration(FALLBACK_DURATION))
         ELSE [i |-> i, audioQueue |-> q, totalStitchedDuration |-> total]

\* Runs the gather loop from letter i up to the next await (a letter whose
\* recording must be fetched) or the end of the word.  Without an await a
\* separator is queued with 0.4 s, a silent letter is skipped, and a letter
\* without targetId is queued with the fallback duration.
RECURSIVE GatherSync(_, _, _, _)
GatherSync(w, i, q, total) ==
    IF i > Len(w) THEN [i |-> i, audioQueue |-> q, totalStitchedDuration |-> total]
    ELSE LET letter == w[i] IN
         IF letter.soundCategory = "separator"
         THEN GatherSync(w, i + 1,
                         Append(q, QueueItem(NoBuffer, i, SEPARATOR_DURATION)),
                         total + SEPARATOR_DURATION)
         ELSE IF letter.isSilent THEN GatherSync(w, i + 1, q, total)
         ELSE IF TargetId(letter) = NoId
         THEN GatherSync(w, i + 1,
                         Append(q, QueueItem(NoBuffer, i, EffectiveDuration(FALLBACK_DURATION))),
                         total + EffectiveDuration(FALLBACK_DURATION))
         ELSE [i |-> i, audioQueue |-> q, totalStitchedDuration |-> total]

\* The queue item pushed once the awaited load of letter i has resolved.
LoadedItem(i, blob) ==
    IF blob.kind = "clip"
    THEN QueueItem(blob.duration, i, EffectiveDuration(blob.duration))
    ELSE QueueItem(NoBuffer, i, EffectiveDuration(FALLBACK_DURATION))

----------------------------------------------------------------------------
(* playWordSequence: the plan *)

Timing(index, startTime, duration) == [index |-> index, startTime |-> startTime, duration |-> duration]

\* Mutant: the ratio divides by the queue's total plus one overlap.
RatioDen_Padded(total) == IF total = 0 THEN 1 ELSE total + OVERLAP

\* const ratio = customBuffer.duration / (totalStitchedDuration || 1)
RatioDen(total) == IF total = 0 THEN 1 ELSE total

\* Mutant: the overlap is taken off the scaled duration.
ScaledDuration_LessOverlap(est, customDuration) == est * customDuration - OVERLAP

\* item.estimatedDuration * ratio, as a numerator over RatioDen(total)
ScaledDuration(est, customDuration) == est * customDuration

\* Mutant: the anchor startTime is scaled by the ratio like the durations.
RECURSIVE CustomTimings_ScaledAnchor(_, _, _, _, _)
CustomTimings_ScaledAnchor(q, startTime, den, customDuration, currentRelTime) ==
    IF q = <<>> THEN <<>>
    ELSE LET item == Head(q)
             scaledDuration == ScaledDuration(item.estimatedDuration, customDuration)
         IN <<Timing(item.index, startTime * customDuration + currentRelTime, scaledDuration)>>
            \o CustomTimings_ScaledAnchor(Tail(q), startTime, den, customDuration,
                                          currentRelTime + scaledDuration)

\* The custom-recording branch: timings as numerators over den.
RECURSIVE CustomTimings(_, _, _, _, _)
CustomTimings(q, startTime, den, customDuration, currentRelTime) ==
    IF q = <<>> THEN <<>>
    ELSE LET item == Head(q)
             scaledDuration == ScaledDuration(item.estimatedDuration, customDuration)
         IN <<Timing(item.index, startTime * den + currentRelTime, scaledDuration)>>
            \o CustomTimings(Tail(q), startTime, den, customDuration,
                             currentRelTime + scaledDuration)

\* Mutant: the advance is not clamped at zero.
StitchedAdvance_Unclamped(w, item) ==
    IF w[item.index].soundCategory = "separator" THEN SEPARATOR_DURATION
    ELSE IF item.buffer # NoBuffer THEN item.buffer - OVERLAP
    ELSE FALLBACK_DURATION

\* Mutant: the overlap is taken off a separator's pause as well.
StitchedAdvance_SeparatorOverlap(w, item) ==
    IF w[item.index].soundCategory = "separator" THEN SEPARATOR_DURATION - OVERLAP
    ELSE IF item.buffer # NoBuffer THEN Max(0, item.buffer - OVERLAP)
    ELSE FALLBACK_DURATION

\* Mutant: the overlap is added to a clip's advance, not taken off it.
StitchedAdvance_Gapped(w, item) ==
    IF w[item.index].soundCategory = "separator" THEN SEPARATOR_DURATION
    ELSE IF item.buffer # NoBuffer THEN item.buffer + OVERLAP
    ELSE FALLBACK_DURATION

\* Mutant: the overlap is taken off a clip's advance twice.
StitchedAdvance_DoubleOverlap(w, item) ==
    IF w[item.index].soundCategory = "separator" THEN SEPARATOR_DURATION
    ELSE IF item.buffer # NoBuffer THEN Max(0, item.buffer - 2 * OVERLAP)
    ELSE FALLBACK_DURATION

\* How far nextStartTime moves after an item of the stitched branch.
StitchedAdvance(w, item) ==
    IF w[item.index].soundCategory = "separator" THEN SEPARATOR_DURATION
    ELSE IF item.buffer # NoBuffer THEN Max(0, item.buffer - OVERLAP)
    ELSE FALLBACK_DURATION

\* The duration the stitched branch reports for an item.
StitchedDuration(w, item) ==
    IF w[item.index].soundCategory = "separator" THEN SEPARATOR_DURATION
    ELSE IF item.buffer # NoBuffer THEN item.buffer
    ELSE FALLBACK_DURATION

RECURSIVE StitchedTimings(_, _, _)
StitchedTimings(w, q, nextStartTime) ==
    IF q = <<>> THEN <<>>
    ELSE LET item == Head(q)
         IN <<Timing(item.index, nextStartTime, StitchedDuration(w, item))>>
            \o StitchedTimings(w, Tail(q), nextStartTime + StitchedAdvance(w, item))

\* Mutant: the buffers are started from the end of the list backwards.
StitchedSources_Reversed(r, w, q, startTime, currentTime) ==
    LET t == StitchedTimings(w, q, startTime)
    IN { Source(r, q[k].index, "plan", q[k].buffer, t[Len(q) + 1 - k].startTime, currentTime) :
           k \in { j \in 1..Len(q) :
                     /\ w[q[j].index].soundCategory # "separator"
                     /\ q[j].buffer # NoBuffer } }

\* The playBuffer calls of the stitched branch: one per queued buffer, at the
\* item's nextStartTime.
StitchedSources(r, w, q, startTime, currentTime) ==
    LET t == StitchedTimings(w, q, startTime)
    IN { Source(r, q[k].index, "plan", q[k].buffer, t[k].startTime, currentTime) :
           k \in { j \in 1..Len(q) :
                     /\ w[q[j].index].soundCategory # "separator"
                     /\ q[j].buffer # NoBuffer } }

\* Mutant: the custom buffer is played without a start time.
CustomSources_AtClock(r, customBuffer, startTime, currentTime) ==
    { Source(r, 0, "plan", customBuffer, 0, currentTime) }

\* The playBuffer call of the custom branch.
CustomSources(r, customBuffer, startTime, currentTime) ==
    { Source(r, 0, "plan", customBuffer, startTime, currentTime) }

\* Everything after the gather loop: the plan and the sources it starts.
BuildPlan(r, w, q, total, customBuffer, currentTime) ==
    LET startTime == currentTime + LEAD_IN IN
    IF customBuffer # NoBuffer
    THEN [timings |-> CustomTimings(q, startTime, RatioDen(total), customBuffer, 0),
          den |-> RatioDen(total),
          custom |-> TRUE,
          sources |-> CustomSources(r, customBuffer, startTime, currentTime)]
    ELSE [timings |-> StitchedTimings(w, q, startTime),
          den |-> 1,
          custom |-> FALSE,
          sources |-> StitchedSources(r, w, q, startTime, currentTime)]

----------------------------------------------------------------------------
(* The animation loop of runKaraokeAnimation *)

\* const seqStartTime = timings[0].startTime
SeqStartTime(timings) == timings[1].startTime

\* const totalDuration = (last.startTime + last.duration) - seqStartTime
TotalDuration(timings) ==
    (timings[Len(timings)].startTime + timings[Len(timings)].duration) - SeqStartTime(timings)

\* timings.find(t => now >= t.startTime && now < t.startTime + t.duration):
\* the position of the first match, 0 when there is none.
ActiveTiming(timings, t) ==
    LET hits == { k \in 1..Len(timings) :
                    /\ t >= timings[k].startTime
                    /\ t < timings[k].startTime + timings[k].duration }
    IN IF hits = {} THEN 0 ELSE CHOOSE k \in hits : \A j \in hits : k <= j

\* Mutant: the progress is reset when the sequence is over.
ElapsedFraction_ResetAtEnd(elapsed, totalDuration) ==
    IF elapsed < 0 \/ elapsed > totalDuration THEN 0 ELSE elapsed

\* The global progress of a tick, as a numerator over totalDuration:
\* elapsed / totalDuration, 1 once the sequence is over, 0 before it starts.
ElapsedFraction(elapsed, totalDuration) ==
    IF elapsed < 0 THEN 0
    ELSE IF elapsed > totalDuration THEN totalDuration
    ELSE elapsed

\* What one run of animate() reported: the branch taken, the active letter
\* (0: none), the global progress, whether the viewer was mounted, and the
\* audio-clock time the run read.
TickOut(kind, index, fraction, mounted, at) ==
    [kind |-> kind, index |-> index, fraction |-> fraction, mounted |-> mounted, at |-> at]

NoTick == TickOut("none", 0, 0, TRUE, 0)

\* Mutant: the sequence counts as over as soon as elapsed reaches totalDuration.
Animate_CompleteAtEnd(timings, t, mounted) ==
    LET elapsed == t - SeqStartTime(timings)
        totalDuration == TotalDuration(timings)
        k == ActiveTiming(timings, t)
    IN IF ~mounted THEN TickOut("unmounted", 0, 0, FALSE, t)
       ELSE IF elapsed < 0 THEN TickOut("waiting", 0, 0, TRUE, t)
       ELSE IF elapsed >= totalDuration THEN TickOut("complete", 0, totalDuration, TRUE, t)
       ELSE IF k # 0 THEN TickOut("active", timings[k].index, elapsed, TRUE, t)
       ELSE TickOut("gap", 0, elapsed, TRUE, t)

\* One run of animate() at audio-clock time t for a plan with den = 1.
Animate(timings, t, mounted) ==
    LET elapsed == t - SeqStartTime(timings)
        totalDuration == TotalDuration(timings)
        k == ActiveTiming(timings, t)
    IN IF ~mounted THEN TickOut("unmounted", 0, 0, FALSE, t)
       ELSE IF elapsed < 0
            THEN TickOut("waiting", 0, ElapsedFraction(elapsed, totalDuration), TRUE, t)
       ELSE IF elapsed > totalDuration
            THEN TickOut("complete", 0, ElapsedFraction(elapsed, totalDuration), TRUE, t)
       ELSE IF k # 0
            THEN TickOut("active", timings[k].index,
                         ElapsedFraction(elapsed, totalDuration), TRUE, t)
       ELSE TickOut("gap", 0, ElapsedFraction(elapsed, totalDuration), TRUE, t)

----------------------------------------------------------------------------
(* Requests *)

\* The playback requests one WordViewer instance is followed through.
Requests == {1, 2}

\* const currentInstructionId = sessionMode === 'training' ? ... : undefined
CurrentInstructionId(a) ==
    IF a.sessionMode = "training"
    THEN IF a.trainingIndex + 1 = TRAINING_SIZE THEN "inst_prog_final" ELSE "inst_prog"
    ELSE NoId

IdleRequest ==
    [pc |-> "idle", viewer |-> FALSE, withInstructions |-> FALSE, forceStitched |-> FALSE,
     i |-> 0, customBuffer |-> NoBuffer, audioQueue |-> <<>>, totalStitchedDuration |-> 0,
     timings |-> <<>>, den |-> 1, custom |-> FALSE, built |-> FALSE,
     frame |-> FALSE, tick |-> NoTick, completions |-> 0,
     resolved |-> 0, nextStartTime |-> 0, playingAtStop |-> FALSE, loadingAtStop |-> FALSE,
     planClock |-> 0, completionInstructionId |-> NoId]

\* The continuation of playFullSequence after `await runKaraokeAnimation()`.
\* Returns the request record and whether setWordComplete(true)/onComplete ran.
PostAnimation(rec, mounted, currentTime) ==
    IF ~mounted THEN [rec |-> [rec EXCEPT !.pc = "done"], completed |-> FALSE]
    ELSE [rec |-> [rec EXCEPT
                     !.nextStartTime = currentTime,
                     !.pc = IF customRecordingId # NoId THEN "awaitFbCustom"
                            ELSE IF ~rec.withInstructions THEN "done"
                            ELSE "awaitVerify"],
          completed |-> rec.withInstructions]

\* The outcome of a step of an asynchronous call: the request's new record,
\* the sources playBuffer started and the component state the step set.
Outcome(rec, sources, frame, playing, completed) ==
    [rec |-> rec, sources |-> sources, frame |-> frame, playing |-> playing,
     completed |-> completed]

\* Mutant: runKaraokeAnimation starts its loop for an empty plan as well.
Continue_AnimatesEmpty(r, rec, i, q, total, currentTime, mounted) ==
    LET g == GatherSync(word, i, q, total)
        gathered == [rec EXCEPT !.i = g.i, !.audioQueue = g.audioQueue,
                                !.totalStitchedDuration = g.totalStitchedDuration]
    IN IF g.i <= Len(word)
       THEN Outcome([gathered EXCEPT !.pc = "awaitUnit"], {}, FALSE, "same", FALSE)
       ELSE
         LET plan == BuildPlan(r, word, g.audioQueue, g.totalStitchedDuration,
                               rec.customBuffer, currentTime)
             planned == [gathered EXCEPT !.timings = plan.timings, !.den = plan.den,
                                         !.custom = plan.custom, !.built = TRUE,
                                         !.planClock = currentTime]
         IN IF ~rec.viewer
            THEN Outcome([planned EXCEPT !.pc = "returned"], plan.sources, FALSE, "same", FALSE)
            ELSE IF ~mounted
            THEN LET post == PostAnimation(planned, mounted, currentTime)
                 IN Outcome(post.rec, plan.sources, FALSE, "same", post.completed)
            ELSE Outcome([planned EXCEPT !.pc = "animating", !.frame = TRUE],
                         plan.sources, TRUE, "true", FALSE)

\* Runs the request from letter i to its next await: the rest of the gather
\* loop and, when the loop ends, the plan, the playBuffer calls and (for a
\* request of the viewer) the start of runKaraokeAnimation.
Continue(r, rec, i, q, total, currentTime, mounted) ==
    LET g == GatherSync(word, i, q, total)
        gathered == [rec EXCEPT !.i = g.i, !.audioQueue = g.audioQueue,
                                !.totalStitchedDuration = g.totalStitchedDuration]
    IN IF g.i <= Len(word)
       THEN Outcome([gathered EXCEPT !.pc = "awaitUnit"], {}, FALSE, "same", FALSE)
       ELSE
         LET plan == BuildPlan(r, word, g.audioQueue, g.totalStitchedDuration,
                               rec.customBuffer, currentTime)
             planned == [gathered EXCEPT !.timings = plan.timings, !.den = plan.den,
                                         !.custom = plan.custom, !.built = TRUE,
                                         !.planClock = currentTime]
         IN IF ~rec.viewer
            THEN Outcome([planned EXCEPT !.pc = "returned"], plan.sources, FALSE, "same", FALSE)
            ELSE IF plan.timings = <<>> \/ ~mounted
            THEN LET post == PostAnimation(planned, mounted, currentTime)
                 IN Outcome(post.rec, plan.sources, FALSE, "same", post.completed)
            ELSE Outcome([planned EXCEPT !.pc = "animating", !.frame = TRUE],
                         plan.sources, TRUE, "true", FALSE)

\* The entry of playWordSequence(word, forceStitched) up to its first await.
Enter(r, rec, currentTime, mounted) ==
    IF ~rec.forceStitched /\ customRecordingId # NoId
    THEN Outcome([rec EXCEPT !.pc = "awaitCustom"], {}, FALSE, "same", FALSE)
    ELSE Continue(r, rec, 1, <<>>, 0, currentTime, mounted)

\* Writes an outcome of request r into the state.
Apply(r, out) ==
    /\ req' = [req EXCEPT ![r] = out.rec]
    /\ activeSources' = activeSources \cup out.sources
    /\ scheduled' = scheduled \cup out.sources
    /\ animationFrameRef' = IF out.frame THEN r ELSE animationFrameRef
    /\ isPlaying' = IF ~isMounted THEN isPlaying
                    ELSE IF out.playing = "true" THEN TRUE
                    ELSE IF out.playing = "false" THEN FALSE
                    ELSE isPlaying
    /\ wordComplete' = (wordComplete \/ (out.completed /\ isMounted))
    /\ onCompleteCalls' = IF out.completed THEN onCompleteCalls + 1 ELSE onCompleteCalls

\* The first request slot that has not been used yet.
FreeRequest(r) ==
    /\ req[r].pc = "idle"
    /\ \A q \in Requests : q < r => req[q].pc # "idle"

----------------------------------------------------------------------------
(* Actions: playWordSequence *)

\* playWordSequence(word, forceStitched) called directly (App's preview of a
\* word calls it with the default mode).
PlayCall(r, forceStitched) ==
    /\ FreeRequest(r)
    /\ Apply(r, Enter(r, [IdleRequest EXCEPT !.forceStitched = forceStitched], now, isMounted))
    /\ UNCHANGED <<word, customRecordingId, store, now, isMounted, onFeedbackDoneCalls, soundVars, outerVars>>

\* The load of the whole-word recording resolves.  A missing blob leaves
\* customBuffer null; a failure is caught and logged.
CustomLoaded(r) ==
    /\ req[r].pc = "awaitCustom"
    /\ LET blob == store[customRecordingId]
           rec == [req[r] EXCEPT !.customBuffer =
                      IF blob.kind = "clip" THEN blob.duration ELSE NoBuffer]
       IN Apply(r, Continue(r, rec, 1, <<>>, 0, now, isMounted))
    /\ UNCHANGED <<word, customRecordingId, store, now, isMounted, onFeedbackDoneCalls, soundVars, outerVars>>

\* What the awaited load of letter i does to the request: the item is queued
\* and the loop goes on, unless getRecording/decodeAudioData threw, which
\* nothing in playWordSequence catches.
UnitLoadOutcome(r, rec, blob, currentTime, mounted) ==
    IF blob.kind = "corrupt"
    THEN Outcome([rec EXCEPT !.pc = "rejected"], {}, FALSE, "same", FALSE)
    ELSE Continue(r, rec, rec.i + 1,
                  Append(rec.audioQueue, LoadedItem(rec.i, blob)),
                  rec.totalStitchedDuration + LoadedItem(rec.i, blob).estimatedDuration,
                  currentTime, mounted)

\* The load of letter i's recording resolves (or rejects).
UnitLoaded(r) ==
    /\ req[r].pc = "awaitUnit"
    /\ Apply(r, UnitLoadOutcome(r, req[r], store[TargetId(word[req[r].i])], now, isMounted))
    /\ UNCHANGED <<word, customRecordingId, store, now, isMounted, onFeedbackDoneCalls, soundVars, outerVars>>

----------------------------------------------------------------------------
(* Actions: the WordViewer *)

\* playFullSequence(withInstructions) up to its first await.  The viewer
\* always asks playWordSequence for the stitched plan.
PlayFullSequence(r, withInstructions) ==
    /\ FreeRequest(r)
    /\ Apply(r, Enter(r, [IdleRequest EXCEPT !.viewer = TRUE, !.forceStitched = TRUE,
                                             !.withInstructions = withInstructions,
                                             !.completionInstructionId =
                                                 CurrentInstructionId(app)],
                      now, isMounted))
    /\ UNCHANGED <<word, customRecordingId, store, now, isMounted, onFeedbackDoneCalls, soundVars, outerVars>>

\* The "read the word" button: rendered while readyToRead && !wordComplete
\* && !isPlaying (every letter has been clicked in the states modelled).
ReadWordClick(r) ==
    /\ isMounted /\ ~wordComplete /\ ~isPlaying
    /\ PlayFullSequence(r, TRUE)

\* The "listen" button: rendered once wordComplete, disabled while isPlaying.
ListenClick(r) ==
    /\ isMounted /\ wordComplete /\ ~isPlaying
    /\ PlayFullSequence(r, FALSE)

\* handleLetterClick on a completed word: if (wordComplete) handleReadWord().
LetterClickComplete(r) ==
    /\ isMounted /\ wordComplete
    /\ \E k \in 1..Len(word) : word[k].soundCategory # "separator"
    /\ PlayFullSequence(r, TRUE)

\* An animation frame of request r fires: animate().
Tick(r) ==
    /\ req[r].frame
    /\ LET out == Animate(req[r].timings, now, isMounted)
           rearm == out.kind \in {"waiting", "active", "gap"}
           complete == out.kind = "complete"
           \* cancelAnimationFrame(animationFrameRef.current) of the completion branch
           cancelled == IF complete THEN animationFrameRef ELSE NoRequest
       IN /\ req' = [q \in Requests |->
                       IF q = r
                       THEN [req[r] EXCEPT
                               !.frame = rearm,
                               !.tick = out,
                               !.pc = IF complete THEN "completing" ELSE @,
                               !.completions = IF complete THEN @ + 1 ELSE @]
                       ELSE IF q = cancelled THEN [req[q] EXCEPT !.frame = FALSE]
                       ELSE req[q]]
          /\ animationFrameRef' = IF rearm THEN r ELSE animationFrameRef
          /\ isPlaying' = IF complete THEN FALSE ELSE isPlaying
    /\ UNCHANGED <<word, customRecordingId, store, now, activeSources, scheduled,
                   isMounted, wordComplete, onCompleteCalls, onFeedbackDoneCalls, soundVars, outerVars>>

\* The 500 ms timer of the completion branch fires and resolves the promise
\* of runKaraokeAnimation; playFullSequence goes on to its next await.
CompletionTimer(r) ==
    /\ req[r].pc = "completing"
    /\ LET post == PostAnimation([req[r] EXCEPT !.resolved = @ + 1], isMounted, now)
       IN Apply(r, Outcome(post.rec, {}, FALSE, "same", post.completed))
    /\ UNCHANGED <<word, customRecordingId, store, now, isMounted, onFeedbackDoneCalls, soundVars, outerVars>>

\* playFullSequence: getRecording(wordData.customRecordingId) resolves and,
\* when there is a blob, playBlob decodes and starts it.
FeedbackOutcome(r, rec, blob, currentTime, mounted) ==
    LET src == Source(r, 0, "feedback", blob.duration, rec.nextStartTime, currentTime)
        after == IF blob.kind = "clip" THEN src.endTime + 50 ELSE rec.nextStartTime
    IN IF blob.kind = "corrupt"
       THEN Outcome([rec EXCEPT !.pc = "rejected", !.nextStartTime = 0], {}, FALSE, "same", FALSE)
       ELSE Outcome([rec EXCEPT
                       !.pc = IF ~mounted \/ ~rec.withInstructions THEN "done" ELSE "awaitVerify",
                       !.nextStartTime = IF ~mounted \/ ~rec.withInstructions THEN 0 ELSE after],
                    IF blob.kind = "clip" THEN {src} ELSE {},
                    FALSE, "same", FALSE)

FbCustomLoaded(r) ==
    /\ req[r].pc = "awaitFbCustom"
    /\ Apply(r, FeedbackOutcome(r, req[r], store[customRecordingId], now, isMounted))
    /\ UNCHANGED <<word, customRecordingId, store, now, isMounted, onFeedbackDoneCalls, soundVars, outerVars>>

\* Where playFullSequence goes after the verify instruction: it returns when
\* the viewer was torn down, awaits the completion instruction when there is
\* one, and sets the done timer otherwise.
VerifyNext(rec, mounted) ==
    IF ~mounted THEN "done"
    ELSE IF rec.completionInstructionId # NoId THEN "awaitCompletion"
    ELSE "doneTimer"

\* playFullSequence: getRecording('inst_verify') resolves and, with a blob,
\* playBlob starts it and nextStartTime moves 3.5 s past its end.
VerifyOutcome(r, rec, blob, currentTime, mounted) ==
    LET src == Source(r, 0, "verify", blob.duration, rec.nextStartTime + 50, currentTime)
        next == VerifyNext(rec, mounted)
        after == IF blob.kind = "clip" THEN src.endTime + 350 ELSE rec.nextStartTime
    IN IF blob.kind = "corrupt"
       THEN Outcome([rec EXCEPT !.pc = "rejected", !.nextStartTime = 0], {}, FALSE, "same", FALSE)
       ELSE Outcome([rec EXCEPT !.pc = next,
                                !.nextStartTime = IF next = "awaitCompletion" THEN after ELSE 0],
                    IF blob.kind = "clip" THEN {src} ELSE {},
                    FALSE, "same", FALSE)

\* playFullSequence: getRecording(completionInstructionId) resolves and, with
\* a blob, playBlob starts it 1 s after nextStartTime; the done timer is set
\* whether or not the viewer is still mounted.
CompletionOutcome(r, rec, blob, currentTime) ==
    LET src == Source(r, 0, "completion", blob.duration, rec.nextStartTime + 100, currentTime)
    IN IF blob.kind = "corrupt"
       THEN Outcome([rec EXCEPT !.pc = "rejected", !.nextStartTime = 0], {}, FALSE, "same", FALSE)
       ELSE Outcome([rec EXCEPT !.pc = "doneTimer", !.nextStartTime = 0],
                    IF blob.kind = "clip" THEN {src} ELSE {},
                    FALSE, "same", FALSE)

VerifyLoaded(r) ==
    /\ req[r].pc = "awaitVerify"
    /\ Apply(r, VerifyOutcome(r, req[r], store[VerifyId], now, isMounted))
    /\ UNCHANGED <<word, customRecordingId, store, now, isMounted, onFeedbackDoneCalls, soundVars, outerVars>>

CompletionLoaded(r) ==
    /\ req[r].pc = "awaitCompletion"
    /\ Apply(r, CompletionOutcome(r, req[r], store[req[r].completionInstructionId], now))
    /\ UNCHANGED <<word, customRecordingId, store, now, isMounted, onFeedbackDoneCalls, soundVars, outerVars>>

\* Mutant: the done timer calls onFeedbackDone without looking at isMountedRef.
DoneTimer_Unguarded(r) ==
    /\ req[r].pc = "doneTimer"
    /\ req' = [req EXCEPT ![r].pc = "done"]
    /\ onFeedbackDoneCalls' = onFeedbackDoneCalls + 1
    /\ UNCHANGED <<word, customRecordingId, store, now, activeSources, scheduled, isMounted,
                   animationFrameRef, wordComplete, isPlaying, onCompleteCalls, soundVars, outerVars>>

\* doneTimer fires: if (isMountedRef.current && onFeedbackDone) onFeedbackDone().
DoneTimer(r) ==
    /\ req[r].pc = "doneTimer"
    /\ req' = [req EXCEPT ![r].pc = "done"]
    /\ onFeedbackDoneCalls' = IF isMounted THEN onFeedbackDoneCalls + 1 ELSE onFeedbackDoneCalls
    /\ UNCHANGED <<word, customRecordingId, store, now, activeSources, scheduled, isMounted,
                   animationFrameRef, wordComplete, isPlaying, onCompleteCalls, soundVars, outerVars>>

----------------------------------------------------------------------------
(* Actions: stopAudio, the teardown effect, the audio subsystem *)

\* window.speechSynthesis.cancel(): every utterance leaves the queue.
SpeechCancel(queue) == <<>>

\* Mutant: stopAudio leaves the speech queue alone.
StopSpeech_KeepsQueue(queue) == queue

\* stopAudio: if (window.speechSynthesis) window.speechSynthesis.cancel().
StopSpeech(queue) == SpeechCancel(queue)

\* Mutant: the sources are stopped but stay registered.
StopAudio_KeepsSources(sources) == sources

\* stopAudio: every source is stopped and activeSources = [].
StopAudio(sources) == {}

\* The cleanup of the WordViewer effect (unmount, or another word selected:
\* the viewer is keyed by the word id).
Teardown ==
    /\ isMounted
    /\ isMounted' = FALSE
    /\ activeSources' = StopAudio(activeSources)
    /\ req' = [q \in Requests |->
                 [req[q] EXCEPT
                    \* cancelAnimationFrame(animationFrameRef.current)
                    !.frame = IF q = animationFrameRef THEN FALSE ELSE @,
                    \* audioTimeoutsRef.current.forEach(clearTimeout)
                    !.pc = IF @ = "doneTimer" THEN "done" ELSE @,
                    !.playingAtStop = (req[q].pc = "animating"),
                    !.loadingAtStop = (req[q].pc \in {"awaitCustom", "awaitUnit",
                                                      "awaitFbCustom", "awaitVerify",
                                                      "awaitCompletion"})]]
    /\ speech' = StopSpeech(speech)
    /\ speechAtStop' = speech
    \* audioTimeoutsRef.current.forEach(clearTimeout); clearTimeout(avatarTimeoutRef.current)
    /\ timers' = {}
    /\ UNCHANGED <<word, customRecordingId, store, now, scheduled, animationFrameRef,
                   wordComplete, isPlaying, onCompleteCalls, onFeedbackDoneCalls,
                   progressIndex, playingIndex, pending, outerVars>>

\* Mutant: the filter of onended keeps the ended source and drops the others.
SourceEnded_KeepsOnlyEnded(s) ==
    /\ s \in activeSources
    /\ s.endTime <= now
    /\ activeSources' = { x \in activeSources : x = s }
    /\ UNCHANGED <<word, customRecordingId, store, now, req, scheduled, isMounted,
                   animationFrameRef, wordComplete, isPlaying, onCompleteCalls,
                   onFeedbackDoneCalls, soundVars, outerVars>>

\* source.onended of a source that has played to its end.
SourceEnded(s) ==
    /\ s \in activeSources
    /\ s.endTime <= now
    /\ activeSources' = { x \in activeSources : x # s }
    /\ UNCHANGED <<word, customRecordingId, store, now, req, scheduled, isMounted,
                   animationFrameRef, wordComplete, isPlaying, onCompleteCalls,
                   onFeedbackDoneCalls, soundVars, outerVars>>

\* The audio clock moves on.
AdvanceClock ==
    /\ now + ClockStep <= MaxClock
    /\ now' = now + ClockStep
    /\ UNCHANGED <<word, customRecordingId, store, req, activeSources, scheduled, isMounted,
                   animationFrameRef, wordComplete, isPlaying, onCompleteCalls,
                   onFeedbackDoneCalls, soundVars, outerVars>>

----------------------------------------------------------------------------
(* Actions: the letter phase of the WordViewer (playSound, the intro) *)

IntroId == "inst_intro"

\* The SpeechSynthesisUtterance speakLetter makes for letter index.
Utterance(index) == [index |-> index]

\* tts speakText: cancel(), then speak(utterance).
SpeakText(queue, utterance) == Append(SpeechCancel(queue), utterance)

\* An awaited load: of playSound for letter index, of playInstructionBlob, or
\* of playBlob(blob, when).
PendingCall(kind, index, when) == [kind |-> kind, index |-> index, when |-> when]

\* advanceProgress: the next index that is not a separator.
AdvanceProgress(currentIndex) ==
    LET stops == { n \in (currentIndex + 1)..(Len(word) + 1) :
                     n = Len(word) + 1 \/ word[n].soundCategory # "separator" }
    IN CHOOSE n \in stops : \A m \in stops : n <= m

\* The timer of the intro effect fires: playInstructionBlob('inst_intro', 0.1)
\* up to its await of getRecording.
IntroTimer ==
    /\ "intro" \in timers
    /\ timers' = timers \ {"intro"}
    /\ pending' = IF isMounted THEN pending \cup {PendingCall("intro", 0, 0)} ELSE pending
    /\ UNCHANGED <<word, customRecordingId, store, now, req, activeSources, scheduled,
                   isMounted, animationFrameRef, wordComplete, isPlaying, onCompleteCalls,
                   onFeedbackDoneCalls, progressIndex, playingIndex, speech, speechAtStop, outerVars>>

\* playInstructionBlob: getRecording resolves; with a blob, startTime =
\* ctx.currentTime + delay and playBlob(blob, startTime) awaits the decoding.
IntroLoaded(c) ==
    /\ c \in pending /\ c.kind = "intro"
    /\ pending' = IF store[IntroId].kind = "clip"
                  THEN (pending \ {c}) \cup {PendingCall("blob", 0, now + LEAD_IN)}
                  ELSE pending \ {c}
    /\ UNCHANGED <<word, customRecordingId, store, now, req, activeSources, scheduled,
                   isMounted, animationFrameRef, wordComplete, isPlaying, onCompleteCalls,
                   onFeedbackDoneCalls, progressIndex, playingIndex, timers, speech,
                   speechAtStop, outerVars>>

\* playBlob: the blob is decoded and playBuffer(audioBuffer, ctx, when) runs.
BlobDecoded(c) ==
    /\ c \in pending /\ c.kind = "blob"
    /\ pending' = pending \ {c}
    /\ LET src == Source(NoRequest, 0, "intro", store[IntroId].duration, c.when, now)
       IN /\ activeSources' = activeSources \cup {src}
          /\ scheduled' = scheduled \cup {src}
    /\ UNCHANGED <<word, customRecordingId, store, now, req, isMounted, animationFrameRef,
                   wordComplete, isPlaying, onCompleteCalls, onFeedbackDoneCalls,
                   progressIndex, playingIndex, timers, speech, speechAtStop, outerVars>>

\* handleLetterClick on the letter that is next, with playSound up to its
\* await: a letter without sound id is spoken at once.  The avatar timer is
\* armed once the handler's own load of the recording has resolved.
LetterClick(k) ==
    /\ isMounted /\ ~wordComplete
    /\ progressIndex <= Len(word)
    /\ k \in 1..Len(word)
    /\ word[k].soundCategory # "separator"
    /\ k = progressIndex
    /\ playingIndex = 0
    /\ playingIndex' = k
    /\ IF TargetId(word[k]) = NoId
       THEN /\ speech' = SpeakText(speech, Utterance(k))
            /\ pending' = pending
            /\ timers' = timers \cup {"avatar"}
       ELSE /\ speech' = speech
            /\ pending' = pending \cup {PendingCall("sound", k, 0)}
            /\ timers' = IF store[TargetId(word[k])].kind = "corrupt" THEN timers
                         ELSE timers \cup {"avatar"}
    /\ UNCHANGED <<word, customRecordingId, store, now, req, activeSources, scheduled,
                   isMounted, animationFrameRef, wordComplete, isPlaying, onCompleteCalls,
                   onFeedbackDoneCalls, progressIndex, speechAtStop, outerVars>>

\* playSound: the load resolves.  A decoded recording is played by
\* playBuffer(audioBuffer, ctx); no blob or a failure falls to speakLetter.
SoundLoaded(c) ==
    /\ c \in pending /\ c.kind = "sound"
    /\ pending' = pending \ {c}
    /\ LET blob == store[TargetId(word[c.index])]
           src == Source(NoRequest, c.index, "sound", blob.duration, c.when, now)
       IN IF blob.kind = "clip"
          THEN /\ activeSources' = activeSources \cup {src}
               /\ scheduled' = scheduled \cup {src}
               /\ speech' = speech
          ELSE /\ speech' = SpeakText(speech, Utterance(c.index))
               /\ UNCHANGED <<activeSources, scheduled>>
    /\ UNCHANGED <<word, customRecordingId, store, now, req, isMounted, animationFrameRef,
                   wordComplete, isPlaying, onCompleteCalls, onFeedbackDoneCalls,
                   progressIndex, playingIndex, timers, speechAtStop, outerVars>>

\* The avatar timer of handleLetterClick fires.
AvatarTimeout ==
    /\ "avatar" \in timers
    /\ timers' = timers \ {"avatar"}
    /\ playingIndex' = IF isMounted THEN 0 ELSE playingIndex
    /\ progressIndex' = IF isMounted THEN AdvanceProgress(playingIndex) ELSE progressIndex
    /\ UNCHANGED <<word, customRecordingId, store, now, req, activeSources, scheduled,
                   isMounted, animationFrameRef, wordComplete, isPlaying, onCompleteCalls,
                   onFeedbackDoneCalls, pending, speech, speechAtStop, outerVars>>

\* The utterance being spoken ends; the next one of the queue is spoken.
UtteranceEnded ==
    /\ speech # <<>>
    /\ speech' = Tail(speech)
    /\ UNCHANGED <<word, customRecordingId, store, now, req, activeSources, scheduled,
                   isMounted, animationFrameRef, wordComplete, isPlaying, onCompleteCalls,
                   onFeedbackDoneCalls, progressIndex, playingIndex, pending, timers,
                   speechAtStop, outerVars>>

----------------------------------------------------------------------------
(* soundDefinitions: the catalog and getSoundIdForLetter *)

\* A text is a sequence of one-character strings, so that toLowerCase and
\* String.includes are computed and not assumed.
NoPhoneme == "none"     \* phoneme undefined
NoVariant == "none"     \* variant / vowelDuration undefined

SoundItem(id, char, phoneme, variant) ==
    [id |-> id, char |-> char, phoneme |-> phoneme, variant |-> variant]

\* The catalog, in the order of the source (a part of each list).  The
\* phonemes written with IPA letters in the source are named here: "sje"
\* and "tje".
VOWELS ==
    << SoundItem("v_a_long", <<"a">>, NoPhoneme, "long"),
       SoundItem("v_a_short", <<"a">>, NoPhoneme, "short"),
       SoundItem("v_o_long", <<"o">>, NoPhoneme, "long"),
       SoundItem("v_o_short", <<"o">>, NoPhoneme, "short") >>

CONSONANTS ==
    << SoundItem("c1", <<"b">>, NoPhoneme, NoVariant),
       SoundItem("c_c", <<"c">>, "k", NoVariant),
       SoundItem("c4", <<"g">>, "g", NoVariant),
       SoundItem("c7", <<"k">>, "k", NoVariant),
       SoundItem("c14", <<"s">>, NoPhoneme, NoVariant),
       SoundItem("c15", <<"t">>, NoPhoneme, NoVariant) >>

SPECIALS ==
    << SoundItem("sp1", <<"s", "j">>, "sje", NoVariant),
       SoundItem("sp2", <<"s", "k">>, "sje", NoVariant),
       SoundItem("sp3", <<"t", "j">>, "tje", NoVariant),
       SoundItem("sp4", <<"k", "j">>, "tje", NoVariant),
       SoundItem("sp5", <<"n", "g">>, "ng", NoVariant),
       SoundItem("sp6", <<"g">>, "j", NoVariant),
       SoundItem("sp7", <<"k">>, "tje", NoVariant),
       SoundItem("sp8", <<"c">>, "s", NoVariant) >>

INSTRUCTIONS ==
    << SoundItem("inst_start", <<>>, NoPhoneme, NoVariant),
       SoundItem("inst_intro", <<>>, NoPhoneme, NoVariant) >>

ALL_SOUNDS == VOWELS \o CONSONANTS \o SPECIALS \o INSTRUCTIONS

\* String.prototype.toLowerCase, letter by letter.
LowerOf(ch) ==
    CASE ch = "A" -> "a" [] ch = "C" -> "c" [] ch = "G" -> "g" [] ch = "K" -> "k"
      [] ch = "S" -> "s" [] ch = "T" -> "t" [] OTHER -> ch

ToLowerCase(text) == [k \in 1..Len(text) |-> LowerOf(text[k])]

\* String.prototype.includes: part occurs in text as a contiguous piece.
Includes(text, part) ==
    \E from \in 0..(Len(text) - Len(part)) :
        \A k \in 1..Len(part) : text[from + k] = part[k]

\* Array.prototype.find: the position of the first item with Test, 0 if none.
FindFirst(items, Test(_)) ==
    LET hits == { k \in 1..Len(items) : Test(items[k]) }
    IN IF hits = {} THEN 0 ELSE CHOOSE k \in hits : \A j \in hits : k <= j

\* What a call returned: the id (NoId when undefined) and the rule of
\* getSoundIdForLetter that returned it.
Lookup(id, rule) == [id |-> id, rule |-> rule]

GetSoundIdForLetter(char, phoneme, vowelDuration) ==
    LET c == ToLowerCase(char)
        VariantTest(v) == v.char = c /\ v.variant = vowelDuration
        SpecialTest(x) == x.phoneme = phoneme /\ (x.char = c \/ Includes(x.char, c))
        ConsonantTest(x) == x.char = c /\ x.phoneme = phoneme
        LongTest(v) == v.char = c /\ v.variant = "long"
        ExactTest(x) == x.char = c /\ x.phoneme = NoPhoneme /\ x.variant = NoVariant
        RoughTest(x) == x.char = c
        vowelMatch == FindFirst(VOWELS, VariantTest)
        special == FindFirst(SPECIALS, SpecialTest)
        consonant == FindFirst(CONSONANTS, ConsonantTest)
        genericVowel == FindFirst(VOWELS, LongTest)
        exact == FindFirst(ALL_SOUNDS, ExactTest)
        rough == FindFirst(ALL_SOUNDS, RoughTest)
    IN IF vowelDuration # NoVariant /\ vowelMatch # 0
       THEN Lookup(VOWELS[vowelMatch].id, "variant")
       ELSE IF phoneme # NoPhoneme /\ special # 0
       THEN Lookup(SPECIALS[special].id, "special")
       ELSE IF phoneme # NoPhoneme /\ consonant # 0
       THEN Lookup(CONSONANTS[consonant].id, "consonant")
       ELSE IF genericVowel # 0 THEN Lookup(VOWELS[genericVowel].id, "genericVowel")
       ELSE IF exact # 0 THEN Lookup(ALL_SOUNDS[exact].id, "exact")
       ELSE IF rough # 0 THEN Lookup(ALL_SOUNDS[rough].id, "rough")
       ELSE Lookup(NoId, "none")

\* The calls followed: the unit texts, phoneme hints and vowel durations.
UnitTexts ==
    { <<>>, <<"a">>, <<"A">>, <<"b">>, <<"c">>, <<"g">>, <<"k">>, <<"K">>, <<"s">>,
      <<"t">>, <<"j">>, <<"x">>, <<"k", "j">>, <<"s", "j">>, <<"n", "g">> }

PhonemeHints == {NoPhoneme, "k", "g", "j", "s", "sje", "tje", "ng"}

NoLookupCall ==
    [char |-> <<>>, phoneme |-> NoPhoneme, vowelDuration |-> NoVariant,
     result |-> Lookup(NoId, "idle")]

\* getSoundIdForLetter(char, phoneme, vowelDuration) is called.
GetSoundId(char, phoneme, vowelDuration) ==
    /\ soundIdCall' = [char |-> char, phoneme |-> phoneme, vowelDuration |-> vowelDuration,
                       result |-> GetSoundIdForLetter(char, phoneme, vowelDuration)]
    /\ UNCHANGED <<word, customRecordingId, store, now, req, activeSources, scheduled,
                   isMounted, animationFrameRef, wordComplete, isPlaying, onCompleteCalls,
                   onFeedbackDoneCalls, soundVars, trimCall, app>>

----------------------------------------------------------------------------
(* The silence trimmer: trimAudioBuffer (App, SoundTest) and trimSilence *)

Min(a, b) == IF a < b THEN a ELSE b

Abs(x) == IF x < 0 THEN 0 - x ELSE x

\* An AudioBuffer: its sample rate and one sequence of samples per channel.
AudioBuffer(sampleRate, channels) == [sampleRate |-> sampleRate, channels |-> channels]

BufferLength(buffer) == Len(buffer.channels[1])

\* Mutant: the amplitude is compared without Math.abs.
Loud_NoAbs(sample) == sample > THRESHOLD

\* Math.abs(channelData[i]) > threshold
Loud(sample) == Abs(sample) > THRESHOLD

\* The first loop: start = the first loud index (0-based), 0 when none is.
ScanStart(channelData) ==
    LET hits == { i \in 0..(Len(channelData) - 1) : Loud(channelData[i + 1]) }
    IN IF hits = {} THEN 0 ELSE CHOOSE i \in hits : \A j \in hits : i <= j

\* Mutant: the end of the window is the last loud index itself.
ScanEnd_OffByOne(channelData) ==
    LET hits == { i \in 0..(Len(channelData) - 1) : Loud(channelData[i + 1]) }
    IN IF hits = {} THEN Len(channelData)
       ELSE CHOOSE i \in hits : \A j \in hits : i >= j

\* The second loop: end = the last loud index + 1, the length when none is.
ScanEnd(channelData) ==
    LET hits == { i \in 0..(Len(channelData) - 1) : Loud(channelData[i + 1]) }
    IN IF hits = {} THEN Len(channelData)
       ELSE (CHOOSE i \in hits : \A j \in hits : i >= j) + 1

\* Math.floor(buffer.sampleRate * 0.1) or (* 0.05)
Padding(sampleRate, percent) == (sampleRate * percent) \div 100

\* The trimmer with the given padding.
Trim(buffer, padding) ==
    LET start == Max(0, ScanStart(buffer.channels[1]) - padding)
        end == Min(BufferLength(buffer), ScanEnd(buffer.channels[1]) + padding)
    IN IF end <= start THEN buffer
       ELSE AudioBuffer(buffer.sampleRate,
                        [ch \in 1..Len(buffer.channels) |->
                            SubSeq(buffer.channels[ch], start + 1, end)])

TrimAudioBuffer(buffer) == Trim(buffer, Padding(buffer.sampleRate, PAD_PERCENT))

TrimSilence(buffer) == Trim(buffer, Padding(buffer.sampleRate, PAD_PERCENT_PLAYER))

TrimBy(fn, buffer) ==
    IF fn = "trimSilence" THEN TrimSilence(buffer) ELSE TrimAudioBuffer(buffer)

\* The buffers given to the trimmer: one or two channels of equal length.
SampleRates == {5, 10, 20}

TrimBuffers(n) ==
    { AudioBuffer(rate, <<c>>) : rate \in SampleRates, c \in [1..n -> {0, 2, -3}] }
      \cup { AudioBuffer(rate, <<c, d>>) :
                rate \in SampleRates, c \in [1..n -> {0, 2, -3}], d \in [1..n -> {0, 3}] }

NoTrimCall ==
    [fn |-> "none", stage |-> "idle", buffer |-> AudioBuffer(0, <<<<>>>>),
     trimmed |-> AudioBuffer(0, <<<<>>>>), retrimmed |-> AudioBuffer(0, <<<<>>>>)]

\* A freshly decoded recording is trimmed.
TrimRecording ==
    /\ trimCall.stage = "decoded"
    /\ trimCall' = [trimCall EXCEPT !.stage = "trimmed",
                                    !.trimmed = TrimBy(trimCall.fn, trimCall.buffer)]
    /\ UNCHANGED <<word, customRecordingId, store, now, req, activeSources, scheduled,
                   isMounted, animationFrameRef, wordComplete, isPlaying, onCompleteCalls,
                   onFeedbackDoneCalls, soundVars, soundIdCall, app>>

\* The trimmed clip is given to the trimmer again.
TrimAgain ==
    /\ trimCall.stage = "trimmed"
    /\ trimCall' = [trimCall EXCEPT !.stage = "retrimmed",
                                    !.retrimmed = TrimBy(trimCall.fn, trimCall.trimmed)]
    /\ UNCHANGED <<word, customRecordingId, store, now, req, activeSources, scheduled,
                   isMounted, animationFrameRef, wordComplete, isPlaying, onCompleteCalls,
                   onFeedbackDoneCalls, soundVars, soundIdCall, app>>

----------------------------------------------------------------------------
(* The App: the word list, the current word and the training session *)

\* A word of allWords; lastPracticed is 0 while the word was never practised.
Word(id, lastPracticed) == [id |-> id, lastPracticed |-> lastPracticed]

\* The ids 'init-1' .. 'init-3' of the initial words.
InitId(n) == <<"init", n>>

INITIAL_WORDS == <<Word(InitId(1), 0), Word(InitId(2), 0), Word(InitId(3), 0)>>

\* The ids analyzeWord gives to quick-added words (crypto.randomUUID()).
NewId(n) == <<"new", n>>

\* The handlers a playFullSequence in flight holds: handleWordComplete and
\* handleFeedbackDone of the render in which the word was started.
Closure(stage, a) ==
    [stage |-> stage, sessionMode |-> a.sessionMode, trainingIndex |-> a.trainingIndex,
     queueLength |-> Len(a.trainingQueue), currentWordId |-> a.currentWordId,
     wordIds |-> { a.allWords[k].id : k \in 1..Len(a.allWords) }]

NoClosure ==
    [stage |-> "none", sessionMode |-> "explore", trainingIndex |-> 0, queueLength |-> 0,
     currentWordId |-> InitId(1), wordIds |-> {}]

\* The App after its first render.
NoApp ==
    [allWords |-> INITIAL_WORDS, currentWordId |-> InitId(1), sessionMode |-> "explore",
     trainingQueue |-> <<>>, trainingIndex |-> 0, nextSuggestions |-> {},
     starting |-> {}, reading |-> NoClosure, wordComplete |-> FALSE, practised |-> 0]

\* allWords.filter(w => !w.lastPracticed)
NeverPracticed(words) == SelectSeq(words, LAMBDA w : w.lastPracticed = 0)

\* The position of the first word with the smallest lastPracticed.
OldestAt(words) ==
    CHOOSE k \in 1..Len(words) :
        /\ \A j \in 1..Len(words) : words[k].lastPracticed <= words[j].lastPracticed
        /\ \A j \in 1..(k - 1) : words[j].lastPracticed > words[k].lastPracticed

\* .sort((a, b) => (a.lastPracticed || 0) - (b.lastPracticed || 0))
RECURSIVE SortByLastPracticed(_)
SortByLastPracticed(words) ==
    IF words = <<>> THEN <<>>
    ELSE LET k == OldestAt(words)
         IN <<words[k]>>
            \o SortByLastPracticed(SubSeq(words, 1, k - 1) \o SubSeq(words, k + 1, Len(words)))

OldPracticed(words) ==
    SortByLastPracticed(SelectSeq(words, LAMBDA w : w.lastPracticed # 0))

\* s.slice(0, n)
Slice(s, n) == SubSeq(s, 1, Min(n, Len(s)))

\* Mutant: the practised words are queued before the never-practised ones.
FinalQueue_PractisedFirst(words) ==
    Slice(OldPracticed(words) \o NeverPracticed(words), TRAINING_SIZE)

\* startTraining: the never-practised words, filled up to five with the
\* words practised longest ago, cut to five.
FinalQueue(words) ==
    LET queue == NeverPracticed(words)
        filled == IF Len(queue) < TRAINING_SIZE
                  THEN queue \o Slice(OldPracticed(words), TRAINING_SIZE - Len(queue))
                  ELSE queue
    IN Slice(filled, TRAINING_SIZE)

\* setCurrentWordId(id): the WordViewer is keyed by the id, so another id
\* unmounts the viewer, and with it the playFullSequence it was running.
ShowWord(a, id) ==
    IF id = a.currentWordId THEN a
    ELSE [a EXCEPT !.currentWordId = id, !.wordComplete = FALSE, !.reading = NoClosure]

AppUnchanged ==
    UNCHANGED <<word, customRecordingId, store, now, req, activeSources, scheduled,
                isMounted, animationFrameRef, wordComplete, isPlaying, onCompleteCalls,
                onFeedbackDoneCalls, soundVars, soundIdCall, trimCall>>

\* The start-training button (rendered while sessionMode is not 'training'):
\* startTraining up to its setTimeout, with the allWords of this render.  One
\* call is followed at a time.
StartTraining ==
    /\ app.sessionMode # "training"
    /\ app.starting = {}
    /\ LET finalQueue == FinalQueue(app.allWords)
       IN app' = IF finalQueue = <<>> THEN app
                 ELSE [app EXCEPT !.starting = @ \cup {finalQueue}]
    /\ AppUnchanged

\* The timeout of startTraining fires.
StartTrainingTimeout(finalQueue) ==
    /\ finalQueue \in app.starting
    /\ app' = [ShowWord(app, finalQueue[1].id) EXCEPT
                  !.starting = @ \ {finalQueue},
                  !.trainingQueue = finalQueue,
                  !.trainingIndex = 0,
                  !.sessionMode = "training",
                  !.nextSuggestions = {}]
    /\ AppUnchanged

\* The read-word button of the viewer (or a letter of a completed word):
\* playFullSequence(true) starts with the handlers of this render.
ReadWord ==
    /\ app.reading.stage = "none"
    /\ app' = [app EXCEPT !.reading = Closure("animating", app)]
    /\ AppUnchanged

\* onComplete of the viewer: handleWordComplete.
HandleWordComplete ==
    /\ app.reading.stage = "animating"
    /\ app.practised < MaxCompletions
    /\ LET c == app.reading
           lastWord == c.sessionMode = "training" /\ c.trainingIndex = c.queueLength - 1
       IN app' = [app EXCEPT
                    !.practised = @ + 1,
                    !.allWords = [k \in 1..Len(app.allWords) |->
                                    IF app.allWords[k].id = c.currentWordId
                                    THEN Word(c.currentWordId, app.practised + 1)
                                    ELSE app.allWords[k]],
                    !.sessionMode = IF lastWord THEN "explore" ELSE @,
                    !.trainingQueue = IF lastWord THEN <<>> ELSE @,
                    !.wordComplete = TRUE,
                    !.reading = [c EXCEPT !.stage = "feedback"]]
    /\ AppUnchanged

\* onFeedbackDone of the viewer: when the session was in explore mode,
\* handleFeedbackDone offers up to three of the other words, picked at random.
\* nextSuggestions holds the words the three are picked from; which of them
\* were picked is decided when one is clicked.
HandleFeedbackDone ==
    /\ app.reading.stage = "feedback"
    /\ LET c == app.reading
           available == c.wordIds \ {c.currentWordId}
       IN app' = [app EXCEPT
                    !.reading = NoClosure,
                    !.nextSuggestions =
                        IF c.sessionMode = "explore" /\ available # {} THEN available ELSE @]
    /\ AppUnchanged

\* handleNextTrainingWord
NextTrainingWord(a) ==
    LET nextIdx == a.trainingIndex + 1
    IN IF nextIdx < Len(a.trainingQueue)
       THEN [ShowWord(a, a.trainingQueue[nextIdx + 1].id) EXCEPT !.trainingIndex = nextIdx]
       ELSE [a EXCEPT !.sessionMode = "explore", !.trainingQueue = <<>>]

\* The next button of the viewer: rendered once the word is complete, while
\* the session is in training mode.
HandleNextTrainingWord ==
    /\ app.sessionMode = "training"
    /\ app.wordComplete
    /\ app' = NextTrainingWord(app)
    /\ AppUnchanged

\* The words the user picks in the sidebar and among the suggestions: the
\* first and the last of allWords.
PickedWords(a) == { a.allWords[1].id, a.allWords[Len(a.allWords)].id }

\* handleSuggestionClick on one of the (at most three) suggestions shown.
HandleSuggestionClick(wordId) ==
    /\ wordId \in app.nextSuggestions \cap PickedWords(app)
    /\ \E shown \in SUBSET app.nextSuggestions :
          /\ Cardinality(shown) = Min(SUGGESTIONS, Cardinality(app.nextSuggestions))
          /\ wordId \in shown
    /\ app' = [ShowWord(app, wordId) EXCEPT
                  !.nextSuggestions = {},
                  !.sessionMode = "explore",
                  !.trainingQueue = <<>>]
    /\ AppUnchanged

\* A word of the sidebar is clicked.
SidebarSelect(wordId) ==
    /\ wordId \in PickedWords(app)
    /\ app' = [ShowWord(app, wordId) EXCEPT
                  !.sessionMode = "explore",
                  !.nextSuggestions = {}]
    /\ AppUnchanged

\* handleQuickAdd with a non-empty text.
HandleQuickAdd ==
    /\ Len(app.allWords) < Len(INITIAL_WORDS) + MaxAdded
    /\ LET newWord == Word(NewId(Len(app.allWords) - Len(INITIAL_WORDS) + 1), 0)
       IN app' = [ShowWord([app EXCEPT !.allWords = Append(@, newWord)], newWord.id) EXCEPT
                    !.sessionMode = "explore",
                    !.nextSuggestions = {}]
    /\ AppUnchanged

----------------------------------------------------------------------------
(* Specifications *)

InitOuter ==
    /\ soundIdCall = NoLookupCall
    /\ trimCall = NoTrimCall
    /\ app = NoApp

\* The playback engine is at rest: no word is shown.
InitEngineIdle ==
    /\ word = <<>>
    /\ customRecordingId = NoId
    /\ store = [id \in SoundIds \cup {CustomId, VerifyId} |-> Absent]
    /\ progressIndex = 1
    /\ timers = {}

InitCommon ==
    /\ playingIndex = 0
    /\ pending = {}
    /\ speech = <<>>
    /\ speechAtStop = <<>>
    /\ now = 0
    /\ req = [r \in Requests |-> IdleRequest]
    /\ activeSources = {}
    /\ scheduled = {}
    /\ isMounted = TRUE
    /\ animationFrameRef = NoRequest
    /\ wordComplete = FALSE
    /\ isPlaying = FALSE
    /\ onCompleteCalls = 0
    /\ onFeedbackDoneCalls = 0

\* The viewer: a word whose letters have all been clicked, ready to be read.
ViewerLetters ==
    { Letter("separator", TRUE, NoId),
      Letter("consonant", FALSE, "a"),
      Letter("vowel", FALSE, "b") }

\* The word's recordings: its whole-word recording exists only when the word
\* names one.
ViewerStores(custom) ==
    { [id \in SoundIds \cup {CustomId, VerifyId, "inst_prog"} |->
         IF id = "a" THEN a ELSE IF id = "b" THEN Clip(6) ELSE IF id = CustomId THEN w
         ELSE IF id = "inst_prog" THEN Clip(4) ELSE v] :
      a \in {Clip(5), Corrupt},
      w \in IF custom = NoId THEN {Absent} ELSE {Clip(5)},
      v \in {Clip(3), Absent} }

ViewerWords ==
    [1..1 -> ViewerLetters]
    \cup { <<Letter("consonant", FALSE, "a"), Letter("vowel", FALSE, "b")>>,
           <<Letter("vowel", FALSE, "b"), Letter("separator", TRUE, NoId)>> }

\* The App around the viewer: exploring, or (followed for the one-letter
\* words) at the first word of a training session.
ViewerApps(w) ==
    IF Len(w) = 1
    THEN {NoApp, [NoApp EXCEPT !.sessionMode = "training",
                               !.trainingQueue = FinalQueue(NoApp.allWords)]}
    ELSE {NoApp}

Init ==
    /\ word \in ViewerWords
    /\ customRecordingId \in {NoId, CustomId}
    /\ store \in ViewerStores(customRecordingId)
    /\ soundIdCall = NoLookupCall
    /\ trimCall = NoTrimCall
    /\ app \in ViewerApps(word)
    /\ progressIndex = Len(word) + 1
    /\ timers = {}
    /\ InitCommon

Next ==
    \/ \E r \in Requests : ReadWordClick(r)
    \/ \E r \in Requests : ListenClick(r)
    \/ \E r \in Requests : LetterClickComplete(r)
    \/ \E r \in Requests : UnitLoaded(r)
    \/ \E r \in Requests : Tick(r)
    \/ \E r \in Requests : CompletionTimer(r)
    \/ \E r \in Requests : FbCustomLoaded(r)
    \/ \E r \in Requests : VerifyLoaded(r)
    \/ \E r \in Requests : CompletionLoaded(r)
    \/ \E r \in Requests : DoneTimer(r)
    \/ Teardown
    \/ \E s \in activeSources : SourceEnded(s)
    \/ AdvanceClock

Spec == Init /\ [][Next]_vars

\* playWordSequence and its callers up to the return of the plan: every word
\* up to MaxLen letters, both modes, every store content; calls follow one
\* another.
PlanStores(custom) ==
    { [id \in SoundIds \cup {CustomId, VerifyId} |->
         IF id = "a" THEN a ELSE IF id = "b" THEN b ELSE IF id = CustomId THEN w ELSE Absent] :
      a \in {Clip(1), Clip(25), Absent, Corrupt}, b \in {Clip(7), Absent},
      w \in IF custom = NoId THEN {Absent} ELSE {Clip(60), Clip(120), Absent, Corrupt} }

InitPlan ==
    /\ word \in WordsUpTo(MaxLen)
    /\ customRecordingId \in {NoId, CustomId}
    /\ store \in PlanStores(customRecordingId)
    /\ InitOuter
    /\ progressIndex = Len(word) + 1
    /\ timers = {}
    /\ InitCommon

\* No call of playWordSequence is between its entry and its return.
NoCallInFlight == \A r \in Requests : req[r].pc \notin {"awaitCustom", "awaitUnit"}

NextPlan ==
    \/ \E r \in Requests, forceStitched \in BOOLEAN : NoCallInFlight /\ PlayCall(r, forceStitched)
    \/ \E r \in Requests : NoCallInFlight /\ ReadWordClick(r)
    \/ \E r \in Requests : CustomLoaded(r)
    \/ \E r \in Requests : UnitLoaded(r)

SpecPlan == InitPlan /\ [][NextPlan]_vars

\* playWordSequence called repeatedly while the audio clock runs: the store
\* stays as it is, the clock moves between the calls and during their loads.
RepeatStores(custom) ==
    { [id \in SoundIds \cup {CustomId, VerifyId} |->
         IF id = "a" THEN a ELSE IF id = "b" THEN Clip(7) ELSE IF id = CustomId THEN w ELSE Absent] :
      a \in {Clip(25), Absent},
      w \in IF custom = NoId THEN {Absent} ELSE {Clip(60), Absent} }

InitRepeat ==
    /\ word \in WordsUpTo(MaxRepeatLen)
    /\ customRecordingId \in {NoId, CustomId}
    /\ store \in RepeatStores(customRecordingId)
    /\ InitOuter
    /\ progressIndex = Len(word) + 1
    /\ timers = {}
    /\ InitCommon

NextRepeat ==
    \/ \E r \in Requests, forceStitched \in BOOLEAN : NoCallInFlight /\ PlayCall(r, forceStitched)
    \/ \E r \in Requests : CustomLoaded(r)
    \/ \E r \in Requests : UnitLoaded(r)
    \/ AdvanceClock

SpecRepeat == InitRepeat /\ [][NextRepeat]_vars

\* The letter phase of a freshly mounted viewer: the intro, the letter clicks
\* with playSound, the speech queue, the teardown.
SoundStores ==
    { [id \in SoundIds \cup {CustomId, VerifyId, IntroId} |->
         IF id = "a" THEN a ELSE IF id = "b" THEN Clip(6) ELSE IF id = IntroId THEN n
         ELSE Absent] :
      a \in {Clip(5), Absent, Corrupt}, n \in {Clip(3), Absent} }

\* The letters of the letter phase: a separator, a silent letter, a letter
\* without sound id and a letter with one.
SoundLetters ==
    { Letter("separator", TRUE, NoId),
      Letter("consonant", TRUE, "a"),
      Letter("consonant", FALSE, NoId),
      Letter("consonant", FALSE, "a") }

InitSound ==
    /\ word \in UNION { [1..k -> SoundLetters] : k \in 1..MaxSoundLen }
    /\ customRecordingId = NoId
    /\ store \in SoundStores
    /\ InitOuter
    /\ progressIndex = 1
    /\ timers = {"intro"}
    /\ InitCommon

NextSound ==
    \/ IntroTimer
    \/ \E c \in pending : IntroLoaded(c)
    \/ \E c \in pending : BlobDecoded(c)
    \/ \E k \in 1..Len(word) : LetterClick(k)
    \/ \E c \in pending : SoundLoaded(c)
    \/ AvatarTimeout
    \/ UtteranceEnded
    \/ Teardown
    \/ \E s \in activeSources : SourceEnded(s)
    \/ AdvanceClock

SpecSound == InitSound /\ [][NextSound]_vars

\* getSoundIdForLetter alone, called with every unit text, hint and duration.
InitLookup ==
    /\ InitEngineIdle
    /\ InitCommon
    /\ InitOuter

NextLookup ==
    \E char \in UnitTexts, phoneme \in PhonemeHints, vowelDuration \in {NoVariant, "long", "short"} :
        GetSoundId(char, phoneme, vowelDuration)

SpecLookup == InitLookup /\ [][NextLookup]_vars

\* The trimmer alone, on every buffer up to MaxSamples samples per channel.
InitTrim ==
    /\ InitEngineIdle
    /\ InitCommon
    /\ soundIdCall = NoLookupCall
    /\ app = NoApp
    /\ \E n \in 0..MaxSamples :
          trimCall \in { [NoTrimCall EXCEPT !.fn = fn, !.stage = "decoded", !.buffer = b] :
                           fn \in {"trimAudioBuffer", "trimSilence"}, b \in TrimBuffers(n) }

NextTrim == TrimRecording \/ TrimAgain

SpecTrim == InitTrim /\ [][NextTrim]_vars

\* The App alone: training sessions, completions and word selections.
InitApp ==
    /\ InitEngineIdle
    /\ InitCommon
    /\ InitOuter

NextApp ==
    \/ StartTraining
    \/ \E finalQueue \in app.starting : StartTrainingTimeout(finalQueue)
    \/ ReadWord
    \/ HandleWordComplete
    \/ HandleFeedbackDone
    \/ HandleNextTrainingWord
    \/ \E wordId \in PickedWords(app) : HandleSuggestionClick(wordId)
    \/ \E wordId \in PickedWords(app) : SidebarSelect(wordId)
    \/ HandleQuickAdd

SpecApp == InitApp /\ [][NextApp]_vars

----------------------------------------------------------------------------
(* Claims about the plan of playWordSequence (SpecPlan) *)

Built(r) == req[r].built

IsSeparator(index) == word[index].soundCategory = "separator"

RECURSIVE SumDurations(_)
SumDurations(timings) ==
    IF timings = <<>> THEN 0 ELSE Head(timings).duration + SumDurations(Tail(timings))

PlanSources(r) == { s \in scheduled : s.req = r /\ s.phase = "plan" }

\* C1: on the stitched path, for consecutive entries k, k+1 that are both
\* non-separator units, timing[k+1].startTime = timing[k].startTime +
\* timing[k].duration - 0.02, whether unit k has a buffer or the fallback.
C1_StitchedAdjacency ==
    \A r \in Requests :
        (Built(r) /\ ~req[r].custom) =>
            \A k \in 1..(Len(req[r].timings) - 1) :
                LET t == req[r].timings IN
                (~IsSeparator(t[k].index) /\ ~IsSeparator(t[k + 1].index)) =>
                    t[k + 1].startTime = t[k].startTime + t[k].duration - OVERLAP

\* C2 as claimed: on the custom-recording path the durations of the plan sum
\* to the custom buffer's duration, for every word, an empty queue included.
C2_SumEqualsCustom_AnyQueue ==
    \A r \in Requests :
        (Built(r) /\ req[r].custom) =>
            SumDurations(req[r].timings) = req[r].customBuffer * req[r].den

\* C2 as amended: on the custom-recording path the durations of the plan sum
\* to the custom buffer's duration whenever the unit queue is not empty; with
\* an empty queue the plan is empty.
C2_SumEqualsCustom ==
    \A r \in Requests :
        (Built(r) /\ req[r].custom) =>
            /\ Len(req[r].timings) = Len(req[r].audioQueue)
            /\ req[r].audioQueue # <<>> =>
                 SumDurations(req[r].timings) = req[r].customBuffer * req[r].den

C2_Witness ==
    \E r \in Requests :
        /\ Built(r) /\ req[r].custom
        /\ Len(req[r].timings) >= 2
        /\ req[r].timings[1].duration # req[r].timings[2].duration

\* C3: on the custom-recording path, for any two entries i and j,
\* duration[i] * estimatedDuration[j] = duration[j] * estimatedDuration[i].
C3_Proportional ==
    \A r \in Requests :
        (Built(r) /\ req[r].custom) =>
            \A i, j \in 1..Len(req[r].timings) :
                req[r].timings[i].duration * req[r].audioQueue[j].estimatedDuration
                  = req[r].timings[j].duration * req[r].audioQueue[i].estimatedDuration

C3_Witness ==
    \E r \in Requests :
        /\ Built(r) /\ req[r].custom
        /\ \E i, j \in 1..Len(req[r].timings) :
              /\ req[r].audioQueue[i].estimatedDuration = MIN_EFFECTIVE
              /\ req[r].audioQueue[j].estimatedDuration > MIN_EFFECTIVE
              /\ req[r].timings[i].duration < req[r].timings[j].duration

AllSeparators == Len(word) >= 1 /\ \A k \in 1..Len(word) : IsSeparator(k)

PlanTotal(r) ==
    LET t == req[r].timings
    IN (t[Len(t)].startTime + t[Len(t)].duration) - t[1].startTime

\* C10 as claimed: for a word of n separators, in any mode and with any store
\* content, the plan's total duration is 0.4 * n and no source is scheduled.
C10_SeparatorsOnly_AnyMode ==
    \A r \in Requests :
        (Built(r) /\ AllSeparators) =>
            /\ PlanTotal(r) = SEPARATOR_DURATION * Len(word) * req[r].den
            /\ PlanSources(r) = {}

\* C10 as amended: for a word of n separators, whenever the stitched path is
\* taken (forceStitched, or no custom recording decodes), the plan's total
\* duration is 0.4 * n and no source is scheduled.
C10_SeparatorsOnly_Stitched ==
    \A r \in Requests :
        (Built(r) /\ AllSeparators /\ ~req[r].custom) =>
            /\ PlanTotal(r) = SEPARATOR_DURATION * Len(word)
            /\ PlanSources(r) = {}

C10_Witness ==
    \E r \in Requests :
        /\ Built(r) /\ AllSeparators /\ ~req[r].custom
        /\ Len(word) >= 2
        /\ ~req[r].forceStitched
        /\ customRecordingId # NoId

\* C7: a failing fetch or decode of a unit's recording does not abort
\* playWordSequence: the promise never rejects, the call ends with a plan.
C7_NeverRejects ==
    \A r \in Requests : req[r].pc # "rejected"

\* A word with zero playable units: no letters, or only silent non-separators.
NoPlayableUnits == \A k \in 1..Len(word) : word[k].isSilent /\ ~IsSeparator(k)

\* C11 as claimed: for a word with zero playable units playWordSequence
\* returns an empty plan and schedules no source, in any mode, and
\* runKaraokeAnimation resolves without starting the animation loop.
C11_EmptyPlan_AnyMode ==
    \A r \in Requests :
        (Built(r) /\ NoPlayableUnits) =>
            /\ req[r].timings = <<>>
            /\ PlanSources(r) = {}
            /\ req[r].viewer =>
                  /\ ~req[r].frame /\ req[r].tick = NoTick
                  /\ req[r].pc \notin {"animating", "completing"}

\* C11 as amended: for a word with zero playable units playWordSequence
\* returns an empty plan; it schedules no source on the stitched path and
\* only the custom buffer when a custom recording decodes; runKaraokeAnimation
\* (which asks for the stitched path) resolves without starting the loop.
C11_EmptyPlan ==
    \A r \in Requests :
        (Built(r) /\ NoPlayableUnits) =>
            /\ req[r].timings = <<>>
            /\ ~req[r].custom => PlanSources(r) = {}
            /\ req[r].custom =>
                  \A s \in PlanSources(r) : s.index = 0
            /\ req[r].viewer =>
                  /\ ~req[r].custom
                  /\ ~req[r].frame /\ req[r].tick = NoTick
                  /\ req[r].pc \notin {"animating", "completing"}
                  /\ animationFrameRef = NoRequest /\ ~isPlaying

C11_Witness ==
    \E r \in Requests :
        /\ Built(r) /\ NoPlayableUnits /\ req[r].viewer
        /\ Len(word) >= 2
        /\ customRecordingId # NoId

\* C13: in every plan returned by playWordSequence, on the stitched and on
\* the custom-recording path, startTime is non-decreasing along the list.
C13_StartTimesNonDecreasing ==
    \A r \in Requests :
        Built(r) =>
            \A k \in 1..(Len(req[r].timings) - 1) :
                req[r].timings[k].startTime <= req[r].timings[k + 1].startTime

C13_Witness ==
    \E r \in Requests :
        /\ Built(r) /\ ~req[r].custom
        /\ Len(req[r].timings) = 3
        /\ req[r].timings[1].startTime = req[r].timings[2].startTime
        /\ req[r].timings[2].startTime < req[r].timings[3].startTime

\* The word names a custom recording that the store lacks or cannot decode.
CustomUnavailable == customRecordingId # NoId /\ store[customRecordingId].kind # "clip"

\* The sources a request's plan started, without the request's name.
PlanSourceTimes(r) ==
    { [index |-> s.index, startTime |-> s.startTime, endTime |-> s.endTime] :
        s \in PlanSources(r) }

Finished(r) == req[r].pc \notin {"idle", "awaitCustom", "awaitUnit"}

\* A non-forced call whose custom recording is unavailable ends as a call
\* with forceStitched = true ends for the same word: the same plan, the same
\* scheduled sources, and a rejection only where the stitched call rejects.
FallbackMatchesStitched ==
    /\ \A r \in Requests : req[r].pc = "rejected" => req[r].i >= 1
    /\ \A r \in Requests : (Built(r) /\ ~req[r].forceStitched) => ~req[r].custom
    /\ \A r1, r2 \in Requests :
          (/\ ~req[r1].forceStitched /\ req[r2].forceStitched
           /\ Finished(r1) /\ Finished(r2)) =>
              /\ (req[r1].pc = "rejected") = (req[r2].pc = "rejected")
              /\ Built(r1) = Built(r2)
              /\ req[r1].timings = req[r2].timings
              /\ req[r1].den = req[r2].den
              /\ PlanSourceTimes(r1) = PlanSourceTimes(r2)

\* C14: when the word names a custom recording that is missing or fails to
\* load, playWordSequence in non-forced mode raises no error and produces
\* the plan and the scheduled sources of the stitched path for the same word.
C14_MissingCustomNoError ==
    CustomUnavailable =>
        /\ \A r \in Requests : ~req[r].forceStitched => req[r].pc # "rejected"
        /\ FallbackMatchesStitched

RECURSIVE SumEstimated(_)
SumEstimated(q) ==
    IF q = <<>> THEN 0 ELSE Head(q).estimatedDuration + SumEstimated(Tail(q))

\* C15: a unit for which no buffer is obtained contributes exactly 0.3 s to
\* totalStitchedDuration and to the custom-path scaling, a unit with a buffer
\* of duration d contributes max(0.1, d - 0.02), a separator contributes 0.4 s.
C15_EffectiveDurations ==
    \A r \in Requests :
        /\ req[r].totalStitchedDuration = SumEstimated(req[r].audioQueue)
        /\ \A k \in 1..Len(req[r].audioQueue) :
              LET item == req[r].audioQueue[k] IN
              item.estimatedDuration =
                  IF IsSeparator(item.index) THEN SEPARATOR_DURATION
                  ELSE IF item.buffer # NoBuffer THEN Max(MIN_EFFECTIVE, item.buffer - OVERLAP)
                  ELSE FALLBACK_DURATION

\* The positions of the plan's entries for letter k.
EntriesOf(r, k) == { j \in 1..Len(req[r].timings) : req[r].timings[j].index = k }

\* A silent letter that is no separator leaves no trace in request r.
SilentSkipped(r, k) ==
    /\ EntriesOf(r, k) = {}
    /\ \A j \in 1..Len(req[r].audioQueue) : req[r].audioQueue[j].index # k
    /\ \A s \in PlanSources(r) : s.index # k

\* A separator has one queue item of 0.4 s without buffer, one timing entry
\* and no source in request r.
SeparatorQueued(r, k) ==
    /\ Cardinality(EntriesOf(r, k)) = 1
    /\ \A j \in EntriesOf(r, k) :
          /\ req[r].audioQueue[j].index = k
          /\ req[r].audioQueue[j].buffer = NoBuffer
          /\ req[r].audioQueue[j].estimatedDuration = SEPARATOR_DURATION
    /\ \A s \in PlanSources(r) : s.index # k

\* C18 as claimed: a silent unit contributes no timing entry and no audio, and
\* every separator, flagged silent or not, contributes exactly one timing
\* entry of 0.4 s with no buffer, in every plan.
C18_SilentAndSeparators_AnyMode ==
    \A r \in Requests :
        Built(r) =>
            \A k \in 1..Len(word) :
                /\ (word[k].isSilent /\ ~IsSeparator(k)) => SilentSkipped(r, k)
                /\ IsSeparator(k) =>
                      /\ SeparatorQueued(r, k)
                      /\ \A j \in EntriesOf(r, k) :
                            req[r].timings[j].duration = SEPARATOR_DURATION * req[r].den

\* C18 as amended: the separator's timing entry lasts 0.4 s on the stitched
\* path and 0.4 s times customDuration / totalStitchedDuration on the
\* custom-recording path.
C18_SilentAndSeparators ==
    \A r \in Requests :
        Built(r) =>
            \A k \in 1..Len(word) :
                /\ (word[k].isSilent /\ ~IsSeparator(k)) => SilentSkipped(r, k)
                /\ IsSeparator(k) =>
                      /\ SeparatorQueued(r, k)
                      /\ \A j \in EntriesOf(r, k) :
                            req[r].timings[j].duration =
                                IF req[r].custom
                                THEN SEPARATOR_DURATION * req[r].customBuffer
                                ELSE SEPARATOR_DURATION

C18_Witness ==
    \E r \in Requests :
        /\ Built(r) /\ ~req[r].custom
        /\ Len(word) = 3
        /\ \E k \in 1..3 : IsSeparator(k) /\ word[k].isSilent
        /\ \E k \in 1..3 : ~IsSeparator(k) /\ word[k].isSilent
        /\ PlanSources(r) # {}
        /\ Len(req[r].timings) = 2

\* C22: every non-separator unit played inside a word sequence goes one of
\* two ways: a buffer source is scheduled for it when its recording decodes,
\* and otherwise the speech-synthesis fallback speaks it; never both and
\* never neither.
C22_BufferOrSpeech ==
    \A r \in Requests :
        (Built(r) /\ ~req[r].custom) =>
            \A j \in 1..Len(req[r].timings) :
                LET k == req[r].timings[j].index IN
                ~IsSeparator(k) =>
                    (\E s \in PlanSources(r) : s.index = k)
                      # (\E u \in 1..Len(speech) : speech[u] = Utterance(k))

\* The end of a built plan: the last entry's startTime + duration.
LastEnd(r) ==
    req[r].timings[Len(req[r].timings)].startTime
        + req[r].timings[Len(req[r].timings)].duration

StitchedPlan(r) == Built(r) /\ ~req[r].custom /\ req[r].timings # <<>>

\* C25 as claimed: the loop reports completion at any clock reading beyond
\* the last entry's startTime + duration, so no source of a stitched plan
\* may end after that instant.
C25_SourcesEndByPlanEnd ==
    \A r \in Requests :
        StitchedPlan(r) => \A s \in PlanSources(r) : s.endTime <= LastEnd(r)

\* C25 as amended: every source of a stitched plan ends less than the overlap
\* after the plan's end, and one ends after it only when the plan's last
\* entry is shorter than the overlap.
C25_SourcesEndWithinOverlap ==
    \A r \in Requests :
        StitchedPlan(r) =>
            \A s \in PlanSources(r) :
                /\ s.endTime < LastEnd(r) + OVERLAP
                /\ s.endTime > LastEnd(r) =>
                      req[r].timings[Len(req[r].timings)].duration < OVERLAP

C25_Witness ==
    \E r \in Requests :
        /\ StitchedPlan(r) /\ req[r].viewer /\ req[r].pc = "animating"
        /\ \E s \in PlanSources(r) : s.endTime > LastEnd(r)

\* C28: in every plan the unit indices are strictly increasing, valid indices
\* of word.letters, each at most once; the queue is filled in that order, one
\* awaited load after the other, and the sources start in index order.
C28_IndexOrder ==
    \A r \in Requests :
        /\ \A k \in 1..Len(req[r].audioQueue) :
              /\ req[r].audioQueue[k].index \in 1..Len(word)
              /\ k > 1 => req[r].audioQueue[k - 1].index < req[r].audioQueue[k].index
              /\ req[r].pc = "awaitUnit" => req[r].audioQueue[k].index < req[r].i
        /\ Built(r) =>
              /\ Len(req[r].timings) = Len(req[r].audioQueue)
              /\ \A k \in 1..Len(req[r].timings) :
                    /\ req[r].timings[k].index = req[r].audioQueue[k].index
                    /\ \A j \in 1..Len(req[r].timings) :
                          req[r].timings[j].index = req[r].timings[k].index => j = k
              /\ ~req[r].custom =>
                    \A s1, s2 \in PlanSources(r) :
                        /\ s1.index \in { req[r].timings[k].index : k \in 1..Len(req[r].timings) }
                        /\ s1.index < s2.index => s1.startTime <= s2.startTime
                        /\ s1.index = s2.index => s1 = s2

C28_Witness ==
    \E r \in Requests :
        /\ Built(r) /\ ~req[r].custom
        /\ Len(req[r].timings) = 2 /\ Len(word) = 3
        /\ req[r].timings[1].index = 1 /\ req[r].timings[2].index = 3
        /\ Cardinality(PlanSources(r)) = 2

----------------------------------------------------------------------------
(* Claims about repeated calls of playWordSequence (SpecRepeat) *)

\* C12: two calls of playWordSequence with the same word and mode against an
\* unchanged store return timing lists of equal length, with equal index and
\* duration at every position, whose startTimes differ by the difference of
\* the two audio-clock readings.
C12_Idempotent ==
    \A r1, r2 \in Requests :
        (Built(r1) /\ Built(r2) /\ req[r1].forceStitched = req[r2].forceStitched) =>
            LET t1 == req[r1].timings
                t2 == req[r2].timings
            IN /\ Len(t1) = Len(t2)
               /\ req[r1].den = req[r2].den
               /\ \A k \in 1..Len(t1) :
                     /\ t1[k].index = t2[k].index
                     /\ t1[k].duration = t2[k].duration
                     /\ t2[k].startTime - t1[k].startTime
                          = (req[r2].planClock - req[r1].planClock) * req[r1].den

C12_Witness ==
    \E r1, r2 \in Requests :
        /\ Built(r1) /\ Built(r2)
        /\ req[r1].custom /\ req[r2].custom
        /\ Len(req[r1].timings) >= 2
        /\ req[r2].planClock > req[r1].planClock

\* C19: on the custom-recording path playWordSequence schedules exactly one
\* source, the custom buffer, at T0 = audio clock + 0.1 s, which is also the
\* startTime of the first timing; no per-unit buffer is scheduled.
C19_CustomPathOneSource ==
    \A r \in Requests :
        (Built(r) /\ req[r].custom) =>
            /\ Cardinality(PlanSources(r)) = 1
            /\ \A s \in PlanSources(r) :
                  /\ s.index = 0
                  /\ s.startTime = req[r].planClock + LEAD_IN
                  /\ s.endTime = s.startTime + req[r].customBuffer
                  /\ req[r].customBuffer = store[customRecordingId].duration
                  /\ req[r].timings # <<>> =>
                        req[r].timings[1].startTime = s.startTime * req[r].den

C19_Witness ==
    \E r \in Requests :
        /\ Built(r) /\ req[r].custom
        /\ req[r].planClock > 0
        /\ Len(req[r].timings) = 2
        /\ \A j \in 1..2 : req[r].audioQueue[j].buffer # NoBuffer

----------------------------------------------------------------------------
(* Claims about the letter phase (SpecSound) *)

\* The buffer an awaited load hands to playBuffer.
LoadedBuffer(c) ==
    IF c.kind = "sound" THEN store[TargetId(word[c.index])].duration
    ELSE store[IntroId].duration

\* C17: playBuffer never schedules a source in the past and never drops it:
\* the source is started at max(when, ctx.currentTime), is registered, and
\* the returned end time is that start plus the buffer's duration, whether
\* the requested time is 0, already passed, or still ahead.
C17_NeverInThePast ==
    [][\A s \in scheduled' \ scheduled :
          /\ s \in activeSources'
          /\ \E c \in pending \ pending' :
                /\ s.startTime >= now
                /\ s.startTime >= c.when
                /\ s.startTime \in {now, c.when}
                /\ s.endTime = s.startTime + LoadedBuffer(c)]_vars

C17_Witness ==
    \E s1, s2, s3 \in scheduled :
        /\ s1.phase = "sound" /\ s1.startTime > 0
        /\ s2.phase = "intro" /\ s2.startTime > now
        /\ s3.phase = "sound" /\ s3.startTime = 0

\* The single letter click: when the load of playSound resolves, either a
\* source is scheduled for the letter or the letter is spoken, never both.
PlaySoundOnePath ==
    [][\A c \in pending \ pending' :
          c.kind = "sound" =>
             (\E s \in scheduled' \ scheduled : s.index = c.index /\ s.phase = "sound")
               # (speech' = <<Utterance(c.index)>> /\ scheduled' = scheduled)]_vars

\* C20: stopAudio cancels the speech-synthesis queue as well as the buffer
\* sources: when it returns, no utterance queued before the call is pending
\* or speaking and activeSources is empty.
C20_StopCancelsSpeech ==
    [][(isMounted /\ ~isMounted') =>
          /\ speech' = <<>>
          /\ activeSources' = {}
          /\ speechAtStop' = speech]_vars

C20_Witness ==
    /\ ~isMounted
    /\ speechAtStop # <<>>
    /\ speech = <<>>
    /\ activeSources = {}
    /\ \E s \in scheduled : s.endTime > now

\* C26: the target never rests on a separator, also when the word begins with
\* one: once every timer has fired and every load has resolved, the letter to
\* click next is not a separator (so that clicking the targeted letter can go
\* on until progressIndex reaches letters.length).
C26_TargetNeverOnSeparator ==
    (isMounted /\ timers = {} /\ pending = {} /\ playingIndex = 0 /\ progressIndex <= Len(word))
        => word[progressIndex].soundCategory # "separator"

----------------------------------------------------------------------------
(* Claims about getSoundIdForLetter (SpecLookup) *)

\* The catalog entry with the given id.
EntryOf(id) ==
    LET Test(x) == x.id = id IN ALL_SOUNDS[FindFirst(ALL_SOUNDS, Test)]

\* C21: when getSoundIdForLetter returns an entry through the phoneme rule,
\* the entry's base character equals the lower-cased unit text and its
\* phoneme equals the hint.
C21_PhonemeRuleAgrees ==
    soundIdCall.result.rule \in {"special", "consonant"} =>
        /\ EntryOf(soundIdCall.result.id).char = ToLowerCase(soundIdCall.char)
        /\ EntryOf(soundIdCall.result.id).phoneme = soundIdCall.phoneme

----------------------------------------------------------------------------
(* Claims about the trimmer (SpecTrim) *)

\* The 0-based positions of channel 0 whose amplitude is above 0.02.
LoudAt(buffer) ==
    { i \in 0..(BufferLength(buffer) - 1) : Abs(buffer.channels[1][i + 1]) > THRESHOLD }

SetMin(S) == CHOOSE x \in S : \A y \in S : x <= y
SetMax(S) == CHOOSE x \in S : \A y \in S : x >= y

PadOf(fn, buffer) ==
    IF fn = "trimSilence" THEN (buffer.sampleRate * PAD_PERCENT_PLAYER) \div 100
    ELSE (buffer.sampleRate * PAD_PERCENT) \div 100

\* How many samples of a channel are above the threshold.
LoudCount(channelData) ==
    Cardinality({ i \in 1..Len(channelData) : Abs(channelData[i]) > THRESHOLD })

\* The trimmed buffer is the slice [max(0, first - pad), min(length, last + 1
\* + pad)) of every channel, with the sample rate and channel count kept; a
\* buffer without a loud sample in channel 0 keeps all its samples.
TrimmedIsSlice ==
    LET b == trimCall.buffer
        t == trimCall.trimmed
        pad == PadOf(trimCall.fn, b)
        loud == LoudAt(b)
        lo == IF loud = {} THEN 0 ELSE Max(0, SetMin(loud) - pad)
        hi == IF loud = {} THEN BufferLength(b)
              ELSE Min(BufferLength(b), SetMax(loud) + 1 + pad)
    IN /\ t.sampleRate = b.sampleRate
       /\ Len(t.channels) = Len(b.channels)
       /\ \A ch \in 1..Len(b.channels) :
             t.channels[ch] = SubSeq(b.channels[ch], lo + 1, hi)
       /\ loud = {} => t.channels = b.channels

\* C23 as claimed: the trimmer returns that slice and no sample above the
\* threshold is dropped, in any channel.
C23_TrimWindow_AnyChannel ==
    trimCall.stage # "decoded" =>
        /\ TrimmedIsSlice
        /\ \A ch \in 1..Len(trimCall.buffer.channels) :
              LoudCount(trimCall.trimmed.channels[ch]) = LoudCount(trimCall.buffer.channels[ch])

\* C23 as amended: the trimmer returns that slice and no sample of channel 0
\* above the threshold is dropped.
C23_TrimWindow ==
    trimCall.stage # "decoded" =>
        /\ TrimmedIsSlice
        /\ LoudCount(trimCall.trimmed.channels[1]) = LoudCount(trimCall.buffer.channels[1])

C23_Witness ==
    /\ trimCall.stage = "trimmed"
    /\ BufferLength(trimCall.trimmed) < BufferLength(trimCall.buffer)
    /\ BufferLength(trimCall.trimmed) >= 3
    /\ trimCall.trimmed.channels[1][1] = 0
    /\ trimCall.trimmed.channels[1][2] = -3
    /\ Len(trimCall.buffer.channels) = 2

----------------------------------------------------------------------------
(* Claims about the viewer (Spec) *)

PlanEnd(r) ==
    LET t == req[r].timings IN t[Len(t)].startTime + t[Len(t)].duration

\* C4: when stopAudio runs while a request still awaits a load, nothing is
\* scheduled once the load completes: activeSources stays empty after the
\* teardown.
C4_NothingScheduledAfterStop ==
    ~isMounted => activeSources = {}

\* C5: after stopAudio ran while a built plan was playing, no source of that
\* plan is registered again, activeSources is empty (as long as no other
\* request was still loading), and every later animation tick reports no
\* active unit.
C5_StoppedPlanStaysSilent ==
    /\ (~isMounted /\ \A r \in Requests : ~req[r].loadingAtStop) => activeSources = {}
    /\ \A r \in Requests :
         req[r].playingAtStop =>
            /\ \A s \in activeSources : s.req # r
            /\ req[r].pc = "animating"
            /\ ~req[r].tick.mounted =>
                  /\ req[r].tick.kind = "unmounted"
                  /\ req[r].tick.index = 0
                  /\ ~req[r].frame

C5_Witness ==
    \E r \in Requests :
        /\ req[r].playingAtStop
        /\ PlanSources(r) # {}
        /\ ~req[r].tick.mounted
        /\ \E s \in PlanSources(r) : s.endTime > now

\* C6: a play-word request arriving while a previous sequence is loading or
\* playing stops that sequence first: never do two sequences have sources
\* registered or animation loops running at once.
C6_OneSequenceAtATime ==
    \A r1, r2 \in Requests :
        r1 # r2 =>
            /\ ~(req[r1].frame /\ req[r2].frame)
            /\ ~\E s1, s2 \in activeSources :
                   /\ s1.req = r1 /\ s1.phase = "plan"
                   /\ s2.req = r2 /\ s2.phase = "plan"

\* C16: activeSources holds exactly the sources that were started and have
\* neither ended nor been stopped: playBuffer adds the new source once, the
\* onended of a source removes only that source, and stopAudio leaves the set
\* empty.
C16_ActiveSourcesRegistry ==
    [][LET added == scheduled' \ scheduled
           removed == activeSources \ activeSources'
       IN /\ scheduled \subseteq scheduled'
          /\ added \cap activeSources = {}
          /\ activeSources' = (activeSources \ removed) \cup added
          /\ activeSources' \subseteq scheduled'
          /\ (isMounted /\ ~isMounted') => activeSources' = {}
          /\ \/ removed = {}
             \/ /\ Cardinality(removed) = 1 /\ added = {}
                /\ \A s \in removed : s.endTime <= now
             \/ isMounted /\ ~isMounted' /\ added = {}]_vars

C16_Witness ==
    /\ isMounted /\ activeSources # {}
    /\ \E s \in scheduled \ activeSources : s.endTime <= now
    /\ \E s \in activeSources : s.endTime <= now

C9_ProgressMonotone ==
    [][\A r \in Requests :
          (req[r].tick.kind \in {"waiting", "active", "gap", "complete"}
           /\ req'[r].tick.kind \in {"waiting", "active", "gap", "complete"})
             => req'[r].tick.fraction >= req[r].tick.fraction]_vars

C9_Witness ==
    \E r \in Requests :
        /\ req[r].tick.kind = "complete"
        /\ req[r].tick.fraction = PlanEnd(r) - req[r].timings[1].startTime
        /\ req[r].tick.fraction > 0

\* C24 as claimed: the windows of a stitched plan with positive durations
\* cover every clock value from the first start to the last end, and no tick
\* of the animation loop takes the gap branch.
PositiveDurations(r) ==
    \A k \in 1..Len(req[r].timings) : req[r].timings[k].duration > 0

WindowsCover(r) ==
    \A t \in req[r].timings[1].startTime .. (PlanEnd(r) - 1) :
        \E k \in 1..Len(req[r].timings) :
            /\ req[r].timings[k].startTime <= t
            /\ t < req[r].timings[k].startTime + req[r].timings[k].duration

C24_NoGapTick ==
    \A r \in Requests :
        (req[r].built /\ req[r].timings # <<>> /\ ~req[r].custom /\ PositiveDurations(r)) =>
            /\ WindowsCover(r)
            /\ req[r].tick.kind # "gap"

\* C24 as amended: the windows cover every clock value from the first start
\* to the last end, and a tick takes the gap branch only when the clock reads
\* exactly the last entry's startTime + duration.
C24_GapOnlyAtPlanEnd ==
    \A r \in Requests :
        (req[r].built /\ req[r].timings # <<>> /\ ~req[r].custom /\ PositiveDurations(r)) =>
            /\ WindowsCover(r)
            /\ req[r].tick.kind = "gap" => req[r].tick.at = PlanEnd(r)

C24_Witness ==
    \E r \in Requests :
        /\ req[r].built /\ ~req[r].custom /\ PositiveDurations(r)
        /\ req[r].tick.kind = "gap"
        /\ req[r].tick.at = PlanEnd(r)

----------------------------------------------------------------------------
(* Claims about the App (SpecApp) *)

InTraining == app.sessionMode = "training"

\* Every never-practised word of the queue stands before every practised one.
NeverPractisedFirst(queue) ==
    \A j, k \in 1..Len(queue) :
        (queue[j].lastPracticed # 0 /\ queue[k].lastPracticed = 0) => k < j

TrainingQueueInvariant ==
    InTraining =>
        /\ Len(app.trainingQueue) \in 1..TRAINING_SIZE
        /\ NeverPractisedFirst(app.trainingQueue)
        /\ app.trainingIndex >= 0
        /\ app.trainingIndex < Len(app.trainingQueue)
        /\ app.currentWordId = app.trainingQueue[app.trainingIndex + 1].id

OnLastWord == InTraining /\ app.trainingIndex = Len(app.trainingQueue) - 1

\* C30: while the session is in training mode the queue has one to five
\* words, never-practised ones first, trainingIndex is a position of the
\* queue and the current word is the queued word at that position; completing
\* or passing the last queued word leaves training with an empty queue.
C30_TrainingQueue ==
    [][/\ TrainingQueueInvariant /\ TrainingQueueInvariant'
       /\ (OnLastWord /\ (HandleWordComplete \/ HandleNextTrainingWord)) =>
              (app'.sessionMode = "explore" /\ app'.trainingQueue = <<>>)]_vars

C30_Witness ==
    /\ app.reading.stage = "feedback"
    /\ app.reading.sessionMode = "training"
    /\ app.reading.trainingIndex = app.reading.queueLength - 1
    /\ app.reading.queueLength > 1
    /\ app.sessionMode = "explore"
    /\ app.trainingQueue = <<>>

\* C27: once the viewer is torn down it stays torn down and neither
\* onComplete nor onFeedbackDone is invoked again, wherever playFullSequence,
\* the animation loop or a timer stood at the teardown.
C27_NoCallbackAfterTeardown ==
    [][~isMounted =>
          /\ ~isMounted'
          /\ onCompleteCalls' = onCompleteCalls
          /\ onFeedbackDoneCalls' = onFeedbackDoneCalls]_vars

C27_Witness ==
    /\ ~isMounted
    /\ onFeedbackDoneCalls = 0
    /\ \E r \in Requests :
          /\ req[r].loadingAtStop
          /\ req[r].pc = "done"
          /\ \E s \in scheduled : s.req = r /\ s.phase = "completion"

====
